---- MODULE Spec2Model ----
(***************************************************************************)
(* A model of the table-driven random resolution engine of dicebot.py:     *)
(* the dice expression evaluator, the encounter table compiler, the range  *)
(* table resolver with its category canonicalization, and the multi-step   *)
(* conversation flows.                                                     *)
(*                                                                         *)
(* Text is modelled as a sequence of one-character strings, so that the    *)
(* regular expressions and the string methods of the source are computed   *)
(* character by character.  random.randint is a nondeterministic choice.   *)
(***************************************************************************)
EXTENDS Integers, Sequences, FiniteSets, TLC

VARIABLES
    \* parse_roll_expression: the argument, the position in the function,
    \* its locals and its result
    expr, rpc, err, terms, idx, total, details, total_dice_rolled,
    rolls_n, rolls_sum, normalized_expr,
    \* _canonical_enc_biom: the argument and the results of applying it
    \* once and twice
    canon_raw, canon_pc, canon_once, canon_twice,
    \* init_encounters and _load_encounters_from_text: the source file, the
    \* position in the function and its locals
    enc_file, cpc, lines, lineno, data, cur_biome, cur_level, pending_range,
    pending_text_parts,
    \* the compiled table
    ENCOUNTERS,
    \* pick_encounter: the arguments, the position in the function, the roll
    \* (0 before it is drawn) and the outcome
    pick_biom, pick_level, ppc, pick_roll, pick_result,
    \* the bot at work: the state of every conversation of the three
    \* ConversationHandlers, context.user_data of every user, the update
    \* handled last, the reply to it and the number of updates handled
    conv, user_data, update, reply, handled,
    \* the resolvers the handler of the last update called, in call order
    called,
    \* roll_biom: its argument, the position in the function, the candidates
    \* and their weights, and the three values it returns
    current_biom, bpc, choices, weights, rolled, display, new_current,
    \* roll_inline_w_dice: the argument, the position in the function, the
    \* place re.sub has scanned to, the text built so far and the trace
    w_text, wpc, w_pos, rolled_text, w_details,
    \* oracle_outcome as rolloracle_pick_chaos calls it: the arguments, the
    \* position, the outcome and whether the message got the event block
    oracle_odds, oracle_chaos, opc, outcome, event_block,
    \* history: for every flow and conversation, the keys of user_data that
    \* were written since the conversation last entered the flow, and whether
    \* it entered while an earlier attempt was in an intermediate state
    fresh

rollVars == <<expr, rpc, err, terms, idx, total, details, total_dice_rolled,
              rolls_n, rolls_sum, normalized_expr>>

canonVars == <<canon_raw, canon_pc, canon_once, canon_twice>>

loadVars == <<enc_file, cpc, lines, lineno, data, cur_biome, cur_level,
              pending_range, pending_text_parts>>

pickVars == <<pick_biom, pick_level, ppc, pick_roll, pick_result>>

botVars == <<conv, user_data, update, reply, handled, called, fresh>>

biomVars == <<current_biom, bpc, choices, weights, rolled, display,
              new_current>>

inlineVars == <<w_text, wpc, w_pos, rolled_text, w_details>>

oracleVars == <<oracle_odds, oracle_chaos, opc, outcome, event_block>>

vars == <<rollVars, canonVars, loadVars, ENCOUNTERS, pickVars, botVars,
          biomVars, inlineVars, oracleVars>>

----------------------------------------------------------------------------
(* Each part of the engine is checked by a specification of its own; the    *)
(* other parts then rest in their idle state.                               *)

\* parse_roll_expression has been called and has not run yet
RollCalled ==
    /\ rpc = "call"
    /\ err = ""
    /\ terms = <<>>
    /\ idx = 0
    /\ total = 0
    /\ details = <<>>
    /\ total_dice_rolled = 0
    /\ rolls_n = 0
    /\ rolls_sum = 0
    /\ normalized_expr = <<>>

\* no call of parse_roll_expression
RollIdle ==
    /\ expr = <<>>
    /\ rpc = "idle"
    /\ err = ""
    /\ terms = <<>>
    /\ idx = 0
    /\ total = 0
    /\ details = <<>>
    /\ total_dice_rolled = 0
    /\ rolls_n = 0
    /\ rolls_sum = 0
    /\ normalized_expr = <<>>

\* no call of _canonical_enc_biom
CanonIdle ==
    /\ canon_raw = <<>>
    /\ canon_pc = "idle"
    /\ canon_once = <<>>
    /\ canon_twice = <<>>

\* what a step of parse_roll_expression leaves alone
RollFrame ==
    UNCHANGED <<canonVars, loadVars, ENCOUNTERS, pickVars, botVars, biomVars,
                inlineVars, oracleVars>>

\* what a step of the canonicalization leaves alone
CanonFrame ==
    UNCHANGED <<rollVars, loadVars, ENCOUNTERS, pickVars, botVars, biomVars,
                inlineVars, oracleVars>>

\* init_encounters has not been called: no file read, no table
LoadIdle ==
    /\ enc_file = [exists |-> FALSE, text |-> <<>>]
    /\ cpc = "idle"
    /\ lines = <<>>
    /\ lineno = 0
    /\ data = <<>>
    /\ cur_biome = <<>>
    /\ cur_level = <<>>
    /\ pending_range = <<>>
    /\ pending_text_parts = <<>>

LoadFrame ==
    UNCHANGED <<rollVars, canonVars, pickVars, botVars, biomVars, inlineVars,
                oracleVars>>

\* pick_encounter has not been called
NoResult == [kind |-> "none", roll |-> 0, txt |-> <<>>]

PickIdle ==
    /\ pick_biom = <<>>
    /\ pick_level = <<>>
    /\ ppc = "idle"
    /\ pick_roll = 0
    /\ pick_result = NoResult

PickFrame ==
    UNCHANGED <<rollVars, canonVars, loadVars, ENCOUNTERS, botVars, biomVars,
                inlineVars, oracleVars>>

\* the bot has not been started
NoUpdate == [chat |-> "", user |-> "", kind |-> "none", name |-> "",
             arg |-> <<>>]

NoReply == [handler |-> "none"]

BotIdle ==
    /\ conv = <<>>
    /\ user_data = <<>>
    /\ update = NoUpdate
    /\ reply = NoReply
    /\ handled = 0
    /\ called = <<>>
    /\ fresh = <<>>

\* a handler runs: the table it reads is not written, no other function runs
BotFrameDropping ==
    /\ ENCOUNTERS' = <<>>
    /\ UNCHANGED <<rollVars, canonVars, loadVars, pickVars, biomVars,
                   inlineVars, oracleVars>>
BotFrame ==
    UNCHANGED <<rollVars, canonVars, loadVars, ENCOUNTERS, pickVars, biomVars,
                inlineVars, oracleVars>>

\* no call of roll_biom
BiomIdle ==
    /\ current_biom = <<>>
    /\ bpc = "idle"
    /\ choices = <<>>
    /\ weights = <<>>
    /\ rolled = <<>>
    /\ display = <<>>
    /\ new_current = <<>>

\* what a step of roll_biom leaves alone
BiomFrame ==
    UNCHANGED <<rollVars, canonVars, loadVars, ENCOUNTERS, pickVars, botVars,
                inlineVars, oracleVars>>

\* no call of roll_inline_w_dice
InlineIdle ==
    /\ w_text = <<>>
    /\ wpc = "idle"
    /\ w_pos = 0
    /\ rolled_text = <<>>
    /\ w_details = <<>>

\* what a step of roll_inline_w_dice leaves alone
InlineFrame ==
    UNCHANGED <<rollVars, canonVars, loadVars, ENCOUNTERS, pickVars, botVars,
                biomVars, oracleVars>>

\* no call of oracle_outcome
NoOutcome == [roll |-> 0]

OracleIdle ==
    /\ oracle_odds = <<>>
    /\ oracle_chaos = 0
    /\ opc = "idle"
    /\ outcome = NoOutcome
    /\ event_block = FALSE

\* what a step of the oracle leaves alone
OracleFrame ==
    UNCHANGED <<rollVars, canonVars, loadVars, ENCOUNTERS, pickVars, botVars,
                biomVars, inlineVars>>

----------------------------------------------------------------------------
(* Characters and the string methods the source uses *)

Digits == {"0", "1", "2", "3", "4", "5", "6", "7", "8", "9"}

\* characters without a printed form are written by their code point
NBSP == "U+00A0"
BOM == "U+FEFF"

Whitespace == {" ", "\t", NBSP}

DiceSep == {"d", "D", "w", "W"}

SignChars == {"+", "-"}

DigitVal(c) ==
    CASE c = "0" -> 0 [] c = "1" -> 1 [] c = "2" -> 2 [] c = "3" -> 3
      [] c = "4" -> 4 [] c = "5" -> 5 [] c = "6" -> 6 [] c = "7" -> 7
      [] c = "8" -> 8 [] c = "9" -> 9

\* int(s) for a non-empty string of decimal digits
RECURSIVE ParseInt(_)
ParseInt(s) ==
    IF Len(s) = 0 THEN 0
    ELSE 10 * ParseInt(SubSeq(s, 1, Len(s) - 1)) + DigitVal(s[Len(s)])

\* str.strip(): leading and trailing whitespace removed
RECURSIVE LStrip(_)
LStrip(s) ==
    IF Len(s) > 0 /\ s[1] \in Whitespace THEN LStrip(Tail(s)) ELSE s

RECURSIVE RStrip(_)
RStrip(s) ==
    IF Len(s) > 0 /\ s[Len(s)] \in Whitespace
    THEN RStrip(SubSeq(s, 1, Len(s) - 1)) ELSE s

Strip(s) == RStrip(LStrip(s))

\* re.sub(r"\s+", "", s)
RemoveWhitespace(s) == SelectSeq(s, LAMBDA c : c \notin Whitespace)

\* the text of a character sequence, for display
RECURSIVE Str(_)
Str(s) == IF Len(s) = 0 THEN "" ELSE s[1] \o Str(Tail(s))

\* all sequences over S of length 0..n
SeqsUpTo(S, n) == UNION {[1..k -> S] : k \in 0..n}

\* str.lower(), on the letters of the model's texts
UpperLetters == <<"A", "B", "C", "D", "E", "F", "G", "H", "I", "J", "K", "L", "M", "N", "O", "P", "Q", "R", "S", "T", "U", "V", "W", "X", "Y", "Z", "Ä", "Ö", "Ü">>

LowerLetters == <<"a", "b", "c", "d", "e", "f", "g", "h", "i", "j", "k", "l", "m", "n", "o", "p", "q", "r", "s", "t", "u", "v", "w", "x", "y", "z", "ä", "ö", "ü">>

LowerChar(c) ==
    IF \E i \in 1..Len(UpperLetters) : UpperLetters[i] = c
    THEN LowerLetters[CHOOSE i \in 1..Len(UpperLetters) : UpperLetters[i] = c]
    ELSE c

Lower(s) == [i \in 1..Len(s) |-> LowerChar(s[i])]

\* sub in s
Contains(s, sub) ==
    \E i \in 0..(Len(s) - Len(sub)) : SubSeq(s, i + 1, i + Len(sub)) = sub

\* s.startswith(prefix)
StartsWith(s, prefix) ==
    Len(s) >= Len(prefix) /\ SubSeq(s, 1, Len(prefix)) = prefix

\* str(n) for n >= 0
DigitChars == <<"0", "1", "2", "3", "4", "5", "6", "7", "8", "9">>

RECURSIVE IntToStr(_)
IntToStr(n) ==
    IF n < 10 THEN <<DigitChars[n + 1]>>
    ELSE IntToStr(n \div 10) \o <<DigitChars[(n % 10) + 1]>>

\* " ".join(parts)
RECURSIVE JoinSpace(_)
JoinSpace(parts) ==
    IF Len(parts) = 0 THEN <<>>
    ELSE IF Len(parts) = 1 THEN parts[1]
    ELSE parts[1] \o <<" ">> \o JoinSpace(Tail(parts))

\* the position of the first character of s at or after p that is not
\* whitespace (Len(s) + 1 when there is none): what \s* skips
RECURSIVE SkipWs(_, _)
SkipWs(s, p) ==
    IF p <= Len(s) /\ s[p] \in Whitespace THEN SkipWs(s, p + 1) ELSE p

\* the literal lit (in lower case) at position p of s, ignoring case
LitAt(s, p, lit) ==
    /\ p + Len(lit) - 1 <= Len(s)
    /\ Lower(SubSeq(s, p, p + Len(lit) - 1)) = lit

\* dict[key] = value
DictPut(d, key, value) ==
    [k \in DOMAIN d \cup {key} |-> IF k = key THEN value ELSE d[k]]

\* the concatenation of a sequence of texts
RECURSIVE Concat(_)
Concat(ws) == IF Len(ws) = 0 THEN <<>> ELSE ws[1] \o Concat(Tail(ws))

----------------------------------------------------------------------------
(* DICE ROLL SYSTEM *)

MAX_DICE_PER_TERM == 100
MIN_SIDES == 2
MAX_SIDES == 100000
MAX_DICE_TOTAL == 200

\* _ROLL_ALLOWED = ^[0-9dDwW+\-\s]+$
RollAllowedBroken(raw) == Len(raw) > 0
RollAllowed(raw) ==
    /\ Len(raw) > 0
    /\ \A i \in 1..Len(raw) :
          raw[i] \in Digits \cup DiceSep \cup SignChars \cup Whitespace

\* the length of the run of digits of c that starts at position p
RECURSIVE DigitRun(_, _)
DigitRun(c, p) ==
    IF p <= Len(c) /\ c[p] \in Digits THEN 1 + DigitRun(c, p + 1) ELSE 0

\* (\d+[dw]\d+|\d+) tried at position p: the length matched, 0 for no match.
\* \d+ is greedy; the dice alternative is tried first and can only succeed
\* with the whole run of digits before the separator.
TokenLenNoDice(c, p) == DigitRun(c, p)
TokenLen(c, p) ==
    LET n == DigitRun(c, p)
        q == p + n
    IN  IF n = 0 THEN 0
        ELSE IF q <= Len(c) /\ c[q] \in DiceSep /\ DigitRun(c, q + 1) > 0
             THEN n + 1 + DigitRun(c, q + 1)
             ELSE n

\* _ROLL_TERM = ([+\-]?)(\d+[dw]\d+|\d+) tried at position p: the match as
\* a record, or the length 0 for no match.  With a sign at p and no token
\* after it the empty sign is tried, and fails on the sign character.
TermAt(c, p) ==
    IF p <= Len(c) /\ c[p] \in SignChars
    THEN LET n == TokenLen(c, p + 1)
         IN  IF n = 0 THEN [len |-> 0]
             ELSE [len |-> n + 1, sign |-> <<c[p]>>,
                   token |-> SubSeq(c, p + 1, p + n)]
    ELSE LET n == TokenLen(c, p)
         IN  IF n = 0 THEN [len |-> 0]
             ELSE [len |-> n, sign |-> <<>>, token |-> SubSeq(c, p, p + n - 1)]

\* list(_ROLL_TERM.finditer(compact)): the matches from position p on,
\* scanning left to right and skipping a character where nothing matches
RECURSIVE FindTerms(_, _)
FindTerms(c, p) ==
    IF p > Len(c) THEN <<>>
    ELSE LET m == TermAt(c, p)
         IN  IF m.len = 0 THEN FindTerms(c, p + 1)
             ELSE <<[sign |-> m.sign, token |-> m.token]>>
                     \o FindTerms(c, p + m.len)

\* "".join(t.group(0) for t in terms)
RECURSIVE Rebuilt(_)
Rebuilt(ts) ==
    IF Len(ts) = 0 THEN <<>>
    ELSE ts[1].sign \o ts[1].token \o Rebuilt(Tail(ts))

\* _ROLL_DICE = ^(\d+)[dw](\d+)$ on a token: the position of the separator,
\* 0 when the token is a plain integer
SepPos(token) ==
    IF \E i \in 1..Len(token) : token[i] \in DiceSep
    THEN CHOOSE i \in 1..Len(token) : token[i] \in DiceSep
    ELSE 0

IsDice(token) == SepPos(token) > 0
DiceCount(token) == ParseInt(SubSeq(token, 1, SepPos(token) - 1))
DiceSides(token) == ParseInt(SubSeq(token, SepPos(token) + 1, Len(token)))

\* sign = -1 if sign_txt == "-" else 1
SignOfAlwaysPlus(sign_txt) == 1
SignOf(sign_txt) == IF sign_txt = <<"-">> THEN -1 ELSE 1

\* random.randint(1, sides)
RandIntFromZero(lo, hi) == 0..hi
RandInt(lo, hi) == lo..hi

\* compact.lower().replace("w", "d"), without a leading "+"
LowerSep(c) == IF c \in DiceSep THEN "d" ELSE c

NormalizedExpr(compact) ==
    LET low == [i \in 1..Len(compact) |-> LowerSep(compact[i])]
    IN  IF Len(low) > 0 /\ low[1] = "+" THEN Tail(low) ELSE low

\* the first check of parse_roll_expression that fails, "" when none does
FormatError(e) ==
    LET raw     == Strip(e)
        compact == RemoveWhitespace(raw)
        ts      == FindTerms(compact, 1)
    IN  IF Len(raw) = 0 THEN "Leerer Ausdruck"
        ELSE IF ~RollAllowed(raw) THEN "Ungueltige Zeichen im Ausdruck"
        ELSE IF Len(ts) = 0 THEN "Kein gueltiger Ausdruck gefunden"
        ELSE IF Rebuilt(ts) # compact THEN "Ungueltiges Format"
        ELSE ""

\* the bounds checks of one dice term, in the order of the source; the
\* running number of dice already includes the term's
CountError(count) == count < 1 \/ count > MAX_DICE_PER_TERM
SidesError(sides) == sides < MIN_SIDES \/ sides > MAX_SIDES
TotalErrorAt(n) == n >= MAX_DICE_TOTAL
TotalError(n) == n > MAX_DICE_TOTAL

\* lines 31-49: the checks before the loop
ParseStart ==
    /\ rpc = "call"
    /\ LET compact == RemoveWhitespace(Strip(expr))
           e       == FormatError(expr)
       IN  IF e # ""
           THEN /\ rpc' = "error"
                /\ err' = e
                /\ UNCHANGED <<terms, idx, total, details, total_dice_rolled>>
           ELSE /\ rpc' = "loop"
                /\ terms' = FindTerms(compact, 1)
                /\ idx' = 1
                /\ total' = 0
                /\ details' = <<>>
                /\ total_dice_rolled' = 0
                /\ UNCHANGED err
    /\ UNCHANGED <<expr, rolls_n, rolls_sum, normalized_expr>>
    /\ RollFrame

\* lines 51-68: a dice term passes or fails its bounds checks
DiceTermBegin ==
    /\ rpc = "loop"
    /\ idx <= Len(terms)
    /\ IsDice(terms[idx].token)
    /\ LET count == DiceCount(terms[idx].token)
           sides == DiceSides(terms[idx].token)
       IN  IF CountError(count)
           THEN /\ rpc' = "error"
                /\ err' = "Maximal 100 Wuerfel pro Term"
                /\ UNCHANGED <<total_dice_rolled, rolls_n, rolls_sum>>
           ELSE IF SidesError(sides)
           THEN /\ rpc' = "error"
                /\ err' = "Seitenzahl bitte zwischen 2 und 100000"
                /\ UNCHANGED <<total_dice_rolled, rolls_n, rolls_sum>>
           ELSE /\ total_dice_rolled' = total_dice_rolled + count
                /\ IF TotalError(total_dice_rolled + count)
                   THEN /\ rpc' = "error"
                        /\ err' = "Zu viele Wuerfel insgesamt"
                        /\ UNCHANGED <<rolls_n, rolls_sum>>
                   ELSE /\ rpc' = "draw"
                        /\ rolls_n' = 0
                        /\ rolls_sum' = 0
                        /\ UNCHANGED err
    /\ UNCHANGED <<expr, terms, idx, total, details, normalized_expr>>
    /\ RollFrame

\* line 70: one draw of rolls = [random.randint(1, sides) for _ in range(count)]
DrawDie ==
    /\ rpc = "draw"
    /\ rolls_n < DiceCount(terms[idx].token)
    /\ \E r \in RandInt(1, DiceSides(terms[idx].token)) :
          rolls_sum' = rolls_sum + r
    /\ rolls_n' = rolls_n + 1
    /\ UNCHANGED <<expr, rpc, err, terms, idx, total, details,
                   total_dice_rolled, normalized_expr>>
    /\ RollFrame

\* lines 71-80: the term's signed sum is added and its trace line appended
DiceTermEnd ==
    /\ rpc = "draw"
    /\ rolls_n = DiceCount(terms[idx].token)
    /\ LET sign == SignOf(terms[idx].sign)
       IN  /\ total' = total + rolls_sum * sign
           /\ details' = Append(details,
                 [kind |-> "dice", sgn |-> IF sign < 0 THEN "-" ELSE "+",
                  count |-> DiceCount(terms[idx].token),
                  sides |-> DiceSides(terms[idx].token),
                  sum |-> rolls_sum])
    /\ idx' = idx + 1
    /\ rpc' = "loop"
    /\ UNCHANGED <<expr, err, terms, total_dice_rolled, rolls_n, rolls_sum,
                   normalized_expr>>
    /\ RollFrame

\* lines 82-85: a flat term
FlatTermSilent ==
    /\ rpc = "loop"
    /\ idx <= Len(terms)
    /\ ~IsDice(terms[idx].token)
    /\ LET val == ParseInt(terms[idx].token) * SignOf(terms[idx].sign)
       IN  /\ total' = total + val
           /\ details' = details
    /\ idx' = idx + 1
    /\ UNCHANGED <<expr, rpc, err, terms, total_dice_rolled, rolls_n,
                   rolls_sum, normalized_expr>>
    /\ RollFrame
FlatTerm ==
    /\ rpc = "loop"
    /\ idx <= Len(terms)
    /\ ~IsDice(terms[idx].token)
    /\ LET val == ParseInt(terms[idx].token) * SignOf(terms[idx].sign)
       IN  /\ total' = total + val
           /\ details' = Append(details,
                 [kind |-> "mod", sgn |-> IF val < 0 THEN "-" ELSE "+",
                  count |-> 0, sides |-> 0,
                  sum |-> IF val < 0 THEN -val ELSE val])
    /\ idx' = idx + 1
    /\ UNCHANGED <<expr, rpc, err, terms, total_dice_rolled, rolls_n,
                   rolls_sum, normalized_expr>>
    /\ RollFrame

\* lines 87-91: the result is returned
ParseReturn ==
    /\ rpc = "loop"
    /\ idx > Len(terms)
    /\ normalized_expr' = NormalizedExpr(RemoveWhitespace(Strip(expr)))
    /\ rpc' = "done"
    /\ UNCHANGED <<expr, err, terms, idx, total, details, total_dice_rolled,
                   rolls_n, rolls_sum>>
    /\ RollFrame

----------------------------------------------------------------------------
(* The expressions parse_roll_expression is applied to: every text over     *)
(* RollAlphabet of at most MaxExprLen characters, and the longer            *)
(* expressions that reach the numeric bounds.                               *)

MaxExprLen == 4

RollAlphabet == {"0", "1", "2", "d", "W", "+", "-", " ", "x"}

LongExprs == {
    <<"1", "d", "2", "0", "+", "2", "d", "6", "+", "3">>,
    <<"2", "w", "6", "-", "1", "d", "4", "+", "5">>,
    <<"3", "x", "9">>,
    <<"1", "d", "6", "+">>,
    <<"-", "-", "3">>,
    <<"1", "d", "2", "2", "d", "3">>,
    <<" ", "+", "1", " ", "D", " ", "6", "\t", "-", " ", "7", " ">>
}

RollInputs == SeqsUpTo(RollAlphabet, MaxExprLen) \cup LongExprs

\* the expressions at the numeric bounds: 0, 1, 100 and 101 dice in a term,
\* 1, 2, 100000 and 100001 sides, and 200 and 201 dice in all
BoundaryExprs == {
    <<"0", "d", "2">>,
    <<"1", "d", "1">>,
    <<"1", "d", "2", "+", "3">>,
    <<"1", "0", "0", "d", "2">>,
    <<"1", "0", "1", "d", "2">>,
    <<"1", "d", "1", "0", "0", "0", "0", "0">>,
    <<"1", "d", "1", "0", "0", "0", "0", "1">>,
    <<"1", "0", "0", "d", "2", "+", "1", "0", "0", "d", "2">>,
    <<"1", "0", "0", "d", "2", "+", "1", "d", "2", "+", "1", "0", "0", "d", "2">>,
    <<"1", "0", "1", "d", "1", "0", "0", "0", "0", "1">>
}

InitRoll ==
    /\ expr \in RollInputs
    /\ RollCalled
    /\ LoadIdle
    /\ ENCOUNTERS = <<>>
    /\ PickIdle
    /\ BotIdle
    /\ BiomIdle
    /\ InlineIdle
    /\ OracleIdle
    /\ CanonIdle

InitRollBounds ==
    /\ expr \in BoundaryExprs
    /\ RollCalled
    /\ LoadIdle
    /\ ENCOUNTERS = <<>>
    /\ PickIdle
    /\ BotIdle
    /\ BiomIdle
    /\ InlineIdle
    /\ OracleIdle
    /\ CanonIdle

NextRoll ==
    \/ ParseStart
    \/ DiceTermBegin
    \/ DrawDie
    \/ DiceTermEnd
    \/ FlatTerm
    \/ ParseReturn

SpecRoll == InitRoll /\ [][NextRoll]_vars

SpecRollBounds == InitRollBounds /\ [][NextRoll]_vars

----------------------------------------------------------------------------
(* ENCOUNTER SYSTEM: category canonicalization *)

\* the alias checks of _canonical_enc_biom, in the order of the source
EncBiomRules == <<
    [key |-> <<"A", "r", "k", "t", "i", "s">>,
     aliases |-> {<<"a", "r", "k", "t", "i", "s">>}],
    [key |-> <<"G", "r", "a", "s", "l", "a", "n", "d">>,
     aliases |-> {<<"g", "r", "a", "s", "l", "a", "n", "d">>}],
    [key |-> <<"H", "ü", "g", "e", "l">>,
     aliases |-> {<<"h", "ü", "g", "e", "l">>,
                 <<"h", "u", "e", "g", "e", "l">>}],
    [key |-> <<"K", "ü", "s", "t", "e">>,
     aliases |-> {<<"k", "ü", "s", "t", "e">>,
                 <<"k", "u", "e", "s", "t", "e">>,
                 <<"k", "ü", "s", "t", "e", "n">>,
                 <<"k", "u", "e", "s", "t", "e", "n">>}],
    [key |-> <<"S", "u", "m", "p", "f">>,
     aliases |-> {<<"s", "u", "m", "p", "f">>}],
    [key |-> <<"W", "a", "l", "d">>,
     aliases |-> {<<"w", "a", "l", "d">>}],
    [key |-> <<"W", "ü", "s", "t", "e">>,
     aliases |-> {<<"w", "ü", "s", "t", "e">>,
                 <<"w", "u", "e", "s", "t", "e">>}],
    [key |-> <<"U", "n", "t", "e", "r", "r", "e", "i", "c", "h">>,
     aliases |-> {<<"u", "n", "d", "e", "r", "d", "a", "r", "k">>,
                 <<"u", "n", "t", "e", "r", "r", "e", "i", "c", "h">>}],
    [key |-> <<"U", "n", "t", "e", "r", "w", "a", "s", "s", "e", "r">>,
     aliases |-> {<<"u", "n", "t", "e", "r", "w", "a", "s", "s", "e", "r">>}],
    [key |-> <<"S", "t", "a", "d", "t", "/", "D", "o", "r", "f">>,
     aliases |-> {<<"s", "t", "a", "d", "t">>,
                 <<"d", "o", "r", "f">>}],
    [key |-> <<"B", "e", "r", "g">>,
     aliases |-> {<<"b", "e", "r", "g">>}]
>>

\* the first rule with an alias in t, 0 when no alias matches
FirstRule(t) ==
    IF \E i \in 1..Len(EncBiomRules) :
          \E a \in EncBiomRules[i].aliases : Contains(t, a)
    THEN CHOOSE i \in 1..Len(EncBiomRules) :
            /\ \E a \in EncBiomRules[i].aliases : Contains(t, a)
            /\ \A j \in 1..(i - 1) :
                  \A a \in EncBiomRules[j].aliases : ~Contains(t, a)
    ELSE 0

\* return raw.strip()
CanonFallbackUnstripped(raw) == raw
CanonFallback(raw) == Strip(raw)

CanonicalEncBiom(raw) ==
    LET t == Lower(Strip(raw))
        r == FirstRule(t)
    IN  IF r > 0 THEN EncBiomRules[r].key ELSE CanonFallback(raw)

\* The category texts the canonicalization is applied to: up to
\* MaxCanonWords of these words, one after the other.
MaxCanonWords == 2

CanonWords == {
    <<"a", "r", "k", "t", "i", "s">>,
    <<"g", "r", "a", "s", "l", "a", "n", "d">>,
    <<"h", "ü", "g", "e", "l">>,
    <<"h", "u", "e", "g", "e", "l">>,
    <<"k", "ü", "s", "t", "e">>,
    <<"k", "u", "e", "s", "t", "e">>,
    <<"k", "ü", "s", "t", "e", "n">>,
    <<"k", "u", "e", "s", "t", "e", "n">>,
    <<"s", "u", "m", "p", "f">>,
    <<"w", "a", "l", "d">>,
    <<"w", "ü", "s", "t", "e">>,
    <<"w", "u", "e", "s", "t", "e">>,
    <<"u", "n", "d", "e", "r", "d", "a", "r", "k">>,
    <<"u", "n", "t", "e", "r", "r", "e", "i", "c", "h">>,
    <<"u", "n", "t", "e", "r", "w", "a", "s", "s", "e", "r">>,
    <<"s", "t", "a", "d", "t">>,
    <<"d", "o", "r", "f">>,
    <<"b", "e", "r", "g">>,
    <<"S", "t", "a", "d", "t", "/", "D", "o", "r", "f">>,
    <<"U", "n", "t", "e", "r", "w", "a", "s", "s", "e", "r">>,
    <<"W", "A", "L", "D">>,
    <<"M", "o", "o", "r">>,
    <<" ">>,
    <<"x">>
}

CanonInputs == {Concat(ws) : ws \in SeqsUpTo(CanonWords, MaxCanonWords)}

CanonCall ==
    /\ canon_pc = "call"
    /\ canon_once' = CanonicalEncBiom(canon_raw)
    /\ canon_pc' = "once"
    /\ UNCHANGED <<canon_raw, canon_twice>>
    /\ CanonFrame

CanonAgain ==
    /\ canon_pc = "once"
    /\ canon_twice' = CanonicalEncBiom(canon_once)
    /\ canon_pc' = "twice"
    /\ UNCHANGED <<canon_raw, canon_once>>
    /\ CanonFrame

InitCanon ==
    /\ canon_raw \in CanonInputs
    /\ canon_pc = "call"
    /\ canon_once = <<>>
    /\ canon_twice = <<>>
    /\ RollIdle
    /\ LoadIdle
    /\ ENCOUNTERS = <<>>
    /\ PickIdle
    /\ BotIdle
    /\ BiomIdle
    /\ InlineIdle
    /\ OracleIdle

NextCanon ==
    \/ CanonCall
    \/ CanonAgain

SpecCanon == InitCanon /\ [][NextCanon]_vars

----------------------------------------------------------------------------
(* ENCOUNTER SYSTEM: the table compiler *)

\* int(token) succeeds: digits, after an optional sign, between whitespace;
\* on any other text it raises ValueError
IntAccepts(token) ==
    LET t == Strip(token)
        d == IF Len(t) > 0 /\ t[1] \in SignChars THEN Tail(t) ELSE t
    IN  Len(d) > 0 /\ \A i \in 1..Len(d) : d[i] \in Digits

\* _to_int_w100
ToIntW100NoWrap(token) == ParseInt(Strip(token))
ToIntW100(token) ==
    IF Strip(token) = <<"0", "0">> THEN 100 ELSE ParseInt(Strip(token))

\* _canonical_level
CanonicalLevelPlain(a, b) == IntToStr(a) \o <<"-">> \o IntToStr(b)
CanonicalLevel(a, b) ==
    IF a = 1 /\ b \in {4, 5} THEN <<"1", "-", "4">>
    ELSE IF a \in {5, 6} /\ b = 10 THEN <<"5", "-", "1", "0">>
    ELSE IF a = 11 /\ b = 16 THEN <<"1", "1", "-", "1", "6">>
    ELSE IF a = 17 /\ b = 20 THEN <<"1", "7", "-", "2", "0">>
    ELSE IF a = 11 /\ b = 20 THEN <<"1", "1", "-", "2", "0">>
    ELSE IntToStr(a) \o <<"-">> \o IntToStr(b)

\* _clean_enc_line
DashVariants == {"U+2013", "U+2014", "U+2212", "U+2011"}

CleanChar(c) ==
    IF c = NBSP THEN " " ELSE IF c \in DashVariants THEN "-" ELSE c

CleanEncLine(ln) ==
    LET s == SelectSeq(ln, LAMBDA c : c # BOM)
    IN  Strip([i \in 1..Len(s) |-> CleanChar(s[i])])

\* (?:-|bis) at position p, ignoring case: its length, 0 for no match
DashOrBis(s, p) ==
    IF p <= Len(s) /\ s[p] = "-" THEN 1
    ELSE IF LitAt(s, p, <<"b", "i", "s">>) THEN 3
    ELSE 0

\* \s*\(\s*Stufe\s*(\d+)\s*(?:-|bis)\s*(\d+)\s*\) tried at position p
HeadingTail(s, p) ==
    LET p1 == SkipWs(s, p)
        p2 == SkipWs(s, p1 + 1)
        p3 == SkipWs(s, p2 + 5)
        n  == DigitRun(s, p3)
        p4 == SkipWs(s, p3 + n)
        d  == DashOrBis(s, p4)
        p5 == SkipWs(s, p4 + d)
        m  == DigitRun(s, p5)
        p6 == SkipWs(s, p5 + m)
    IN  IF /\ p1 <= Len(s) /\ s[p1] = "("
           /\ LitAt(s, p2, <<"s", "t", "u", "f", "e">>)
           /\ n > 0
           /\ d > 0
           /\ m > 0
           /\ p6 <= Len(s) /\ s[p6] = ")"
        THEN [ok |-> TRUE, a |-> SubSeq(s, p3, p3 + n - 1),
              b |-> SubSeq(s, p5, p5 + m - 1)]
        ELSE [ok |-> FALSE]

\* the lazy (.+?) of heading_re takes the fewest characters, at least one,
\* after which the rest of the pattern matches: their number, tried from k
\* on, 0 when the pattern matches nowhere
RECURSIVE HeadingSplit(_, _)
HeadingSplit(ln, k) ==
    IF k > Len(ln) THEN 0
    ELSE IF HeadingTail(ln, k + 1).ok THEN k
    ELSE HeadingSplit(ln, k + 1)

\* heading_re.match(ln)
HeadingMatch(ln) ==
    LET k == HeadingSplit(ln, 1)
    IN  IF k = 0 THEN [ok |-> FALSE]
        ELSE [ok |-> TRUE, biome |-> SubSeq(ln, 1, k),
              a |-> HeadingTail(ln, k + 1).a, b |-> HeadingTail(ln, k + 1).b]

\* range_re.match(ln): two digits, an optional end of two digits after a
\* dash or "bis", and the rest of the line after whitespace
RangeEnd(ln) ==
    LET q  == SkipWs(ln, 3)
        d  == DashOrBis(ln, q)
        q2 == SkipWs(ln, q + d)
    IN  IF d > 0 /\ DigitRun(ln, q2) >= 2
        THEN [ok |-> TRUE, e |-> SubSeq(ln, q2, q2 + 1), next |-> q2 + 2]
        ELSE [ok |-> FALSE, e |-> <<>>, next |-> 3]

RangeMatchNoEnd(ln) ==
    IF DigitRun(ln, 1) >= 2
    THEN [ok |-> TRUE, s |-> SubSeq(ln, 1, 2), e |-> <<>>,
          rest |-> SubSeq(ln, SkipWs(ln, 3), Len(ln))]
    ELSE [ok |-> FALSE]

RangeMatch(ln) ==
    IF DigitRun(ln, 1) >= 2
    THEN LET g == RangeEnd(ln)
         IN  [ok |-> TRUE, s |-> SubSeq(ln, 1, 2), e |-> g.e,
              rest |-> SubSeq(ln, SkipWs(ln, g.next), Len(ln))]
    ELSE [ok |-> FALSE]

\* lines 612-616: a line that announces the die of the table
IsMarkerAtStart(ln) == StartsWith(Lower(ln), <<"w", "1", "0", "0">>)
IsMarker(ln) ==
    LET low == Lower(ln)
    IN  \/ StartsWith(low, <<"w", "1", "0", "0">>)
        \/ Contains(low, <<"w", "1", "0", "0">>) /\ Contains(low, <<"b", "e", "g", "e", "g", "n">>)

\* line 633: a line that is no heading and no range line is kept as text
\* only while an entry is pending
KeepsTextAlways(pending) == TRUE
KeepsText(pending) == pending # <<>>

\* the locals of _load_encounters_from_text as a record, None as <<>>
LoadStart == [data |-> <<>>, cur_biome |-> <<>>, cur_level |-> <<>>,
              pending_range |-> <<>>, pending_text_parts |-> <<>>]

\* data.setdefault(cur_biome, {}).setdefault(cur_level, []).append(entry)
DataAppend(d, biome, level, entry) ==
    LET tiers   == IF biome \in DOMAIN d THEN d[biome] ELSE <<>>
        entries == IF level \in DOMAIN tiers THEN tiers[level] ELSE <<>>
    IN  DictPut(d, biome, DictPut(tiers, level, Append(entries, entry)))

\* flush_pending
FlushPending(st) ==
    LET entry == Strip(JoinSpace(st.pending_text_parts))
        commit == /\ st.cur_biome # <<>>
                  /\ st.cur_level # <<>>
                  /\ st.pending_range # <<>>
                  /\ st.pending_text_parts # <<>>
                  /\ entry # <<>>
    IN  [st EXCEPT
           !.data = IF commit
                    THEN DataAppend(st.data, st.cur_biome, st.cur_level,
                            <<st.pending_range[1], st.pending_range[2], entry>>)
                    ELSE st.data,
           !.pending_range = <<>>,
           !.pending_text_parts = <<>>]

\* which branch of the loop body a (cleaned) line takes
LineKind(st, ln) ==
    IF Len(ln) = 0 THEN "blank"
    ELSE IF HeadingMatch(ln).ok THEN "heading"
    ELSE IF IsMarker(ln) THEN "marker"
    ELSE IF RangeMatch(ln).ok /\ st.cur_biome # <<>> /\ st.cur_level # <<>>
         THEN "range"
    ELSE IF KeepsText(st.pending_range) THEN "text"
    ELSE "dropped"

\* lines 603-610: a heading
HeadingStepLate(st, ln) ==
    LET m == HeadingMatch(ln)
    IN  FlushPending([st EXCEPT
           !.cur_biome = CanonicalEncBiom(Strip(m.biome)),
           !.cur_level = CanonicalLevel(ParseInt(m.a), ParseInt(m.b))])
HeadingStep(st, ln) ==
    LET m == HeadingMatch(ln)
    IN  [FlushPending(st) EXCEPT
           !.cur_biome = CanonicalEncBiom(Strip(m.biome)),
           !.cur_level = CanonicalLevel(ParseInt(m.a), ParseInt(m.b))]

\* lines 606-607 and 620-622: a conversion to int raises
HeadingRaises(ln) ==
    ~IntAccepts(HeadingMatch(ln).a) \/ ~IntAccepts(HeadingMatch(ln).b)

RangeRaises(ln) ==
    \/ ~IntAccepts(RangeMatch(ln).s)
    \/ RangeMatch(ln).e # <<>> /\ ~IntAccepts(RangeMatch(ln).e)

\* lines 618-631: a range line opens a new pending entry
RangeStep(st, ln) ==
    LET m    == RangeMatch(ln)
        s0   == ToIntW100(m.s)
        e0   == IF m.e # <<>> THEN ToIntW100(m.e) ELSE s0
        s    == IF s0 > e0 THEN e0 ELSE s0
        e    == IF s0 > e0 THEN s0 ELSE e0
        rest == Strip(m.rest)
    IN  [FlushPending(st) EXCEPT
           !.pending_range = <<s, e>>,
           !.pending_text_parts = IF rest # <<>> THEN <<rest>> ELSE <<>>]

\* line 634: the line is added to the text of the pending entry
TextStep(st, ln) == [st EXCEPT !.pending_text_parts = Append(@, ln)]

\* one turn of the loop over the lines
LineStep(st, ln) ==
    LET kind == LineKind(st, ln)
    IN  IF kind = "heading" THEN HeadingStep(st, ln)
        ELSE IF kind = "range" THEN RangeStep(st, ln)
        ELSE IF kind = "text" THEN TextStep(st, ln)
        ELSE st

\* _load_encounters_from_text on a text given as its lines (splitlines)
RECURSIVE LoadLines(_, _, _)
LoadLines(st, lns, i) ==
    IF i > Len(lns) THEN FlushPending(st).data
    ELSE LoadLines(LineStep(st, CleanEncLine(lns[i])), lns, i + 1)

LoadEncountersFromText(text) == LoadLines(LoadStart, text, 1)

\* raw.strip() is empty
IsBlankText(text) ==
    \A i \in 1..Len(text) : \A j \in 1..Len(text[i]) : text[i][j] \in Whitespace

\* init_encounters: a missing file reads as the empty text
InitEncounters(file) ==
    LET raw == IF file.exists THEN file.text ELSE <<>>
    IN  IF IsBlankText(raw) THEN <<>> ELSE LoadEncountersFromText(raw)

\* the locals of the running call as a record
LoadState == [data |-> data, cur_biome |-> cur_biome, cur_level |-> cur_level,
              pending_range |-> pending_range,
              pending_text_parts |-> pending_text_parts]

SetLoadState(st) ==
    /\ data' = st.data
    /\ cur_biome' = st.cur_biome
    /\ cur_level' = st.cur_level
    /\ pending_range' = st.pending_range
    /\ pending_text_parts' = st.pending_text_parts

\* init_encounters, lines 639-642, with no text to compile
InitEncountersEmpty ==
    /\ cpc = "init"
    /\ IsBlankText(IF enc_file.exists THEN enc_file.text ELSE <<>>)
    /\ ENCOUNTERS' = <<>>
    /\ cpc' = "done"
    /\ UNCHANGED <<enc_file, lines, lineno, data, cur_biome, cur_level,
                   pending_range, pending_text_parts>>
    /\ LoadFrame

\* init_encounters calls _load_encounters_from_text: lines 572-587
LoadBegin ==
    /\ cpc = "init"
    /\ ~IsBlankText(IF enc_file.exists THEN enc_file.text ELSE <<>>)
    /\ lines' = [i \in 1..Len(enc_file.text) |-> CleanEncLine(enc_file.text[i])]
    /\ lineno' = 1
    /\ SetLoadState(LoadStart)
    /\ cpc' = "lines"
    /\ UNCHANGED <<enc_file, ENCOUNTERS>>
    /\ LoadFrame

\* the loop, lines 599-634, is at a line of the given kind
AtLine(kind) ==
    /\ cpc = "lines"
    /\ lineno <= Len(lines)
    /\ LineKind(LoadState, lines[lineno]) = kind

\* lines 600-601: an empty line is skipped
LoadBlankLine ==
    /\ AtLine("blank")
    /\ lineno' = lineno + 1
    /\ UNCHANGED <<enc_file, cpc, lines, data, cur_biome, cur_level,
                   pending_range, pending_text_parts, ENCOUNTERS>>
    /\ LoadFrame

\* lines 603-610: a heading closes the pending entry and sets the context
LoadHeadingLine ==
    /\ AtLine("heading")
    /\ IF HeadingRaises(lines[lineno])
       THEN /\ cpc' = "raised"
            /\ UNCHANGED <<lineno, data, cur_biome, cur_level, pending_range,
                           pending_text_parts>>
       ELSE /\ SetLoadState(HeadingStep(LoadState, lines[lineno]))
            /\ lineno' = lineno + 1
            /\ UNCHANGED cpc
    /\ UNCHANGED <<enc_file, lines, ENCOUNTERS>>
    /\ LoadFrame

\* lines 612-616: a marker line is skipped
LoadMarkerLine ==
    /\ AtLine("marker")
    /\ lineno' = lineno + 1
    /\ UNCHANGED <<enc_file, cpc, lines, data, cur_biome, cur_level,
                   pending_range, pending_text_parts, ENCOUNTERS>>
    /\ LoadFrame

\* lines 618-631: a range line closes the pending entry and opens the next
LoadRangeLine ==
    /\ AtLine("range")
    /\ IF RangeRaises(lines[lineno])
       THEN /\ cpc' = "raised"
            /\ UNCHANGED <<lineno, data, cur_biome, cur_level, pending_range,
                           pending_text_parts>>
       ELSE /\ SetLoadState(RangeStep(LoadState, lines[lineno]))
            /\ lineno' = lineno + 1
            /\ UNCHANGED cpc
    /\ UNCHANGED <<enc_file, lines, ENCOUNTERS>>
    /\ LoadFrame

\* lines 633-634: any other line continues the pending entry
LoadTextLine ==
    /\ AtLine("text")
    /\ SetLoadState(TextStep(LoadState, lines[lineno]))
    /\ lineno' = lineno + 1
    /\ UNCHANGED <<enc_file, cpc, lines, ENCOUNTERS>>
    /\ LoadFrame

\* line 633 is false: with no pending entry the line is dropped
LoadDroppedLine ==
    /\ AtLine("dropped")
    /\ lineno' = lineno + 1
    /\ UNCHANGED <<enc_file, cpc, lines, data, cur_biome, cur_level,
                   pending_range, pending_text_parts, ENCOUNTERS>>
    /\ LoadFrame

\* lines 636-637 and 642: the last flush, and the table is installed
LoadEnd ==
    /\ cpc = "lines"
    /\ lineno > Len(lines)
    /\ SetLoadState(FlushPending(LoadState))
    /\ ENCOUNTERS' = FlushPending(LoadState).data
    /\ cpc' = "done"
    /\ UNCHANGED <<enc_file, lines, lineno>>
    /\ LoadFrame

\* The source files the compiler is applied to: no file, and every text of
\* at most MaxLines of these lines.
MaxLines == 3

L_WaldStufe1_4 == <<"W", "a", "l", "d", " ", "(", "S", "t", "u", "f", "e", " ", "1", "-", "4", ")">>
L_Wolf == <<"0", "5", "-", "1", "2", " ", "E", "i", "n", " ", "W", "o", "l", "f", " ", "t", "a", "u", "c", "h", "t", " ", "a", "u", "f">>
L_WaldBis == <<"W", "A", "L", "D", " ", "(", " ", "s", "t", "u", "f", "e", " ", "1", "1", " ", "b", "i", "s", " ", "2", "0", " ", ")">>
L_Kuestenwald == <<"K", "ü", "s", "t", "e", "n", "w", "a", "l", "d", " ", "(", "S", "t", "u", "f", "e", " ", "1", "7", "-", "2", "0", ")", ":", " ", "T", "a", "b", "e", "l", "l", "e">>
L_Moor == <<"M", "o", "o", "r", " ", "(", "S", "t", "u", "f", "e", " ", "2", "-", "3", ")">>
L_Orks == <<"1", "3", " ", "1", "W", "4", " ", "O", "r", "k", "s">>
L_Drache == <<"9", "6", " ", "b", "i", "s", " ", "0", "0", " ", "D", "r", "a", "c", "h", "e">>
L_Baer == <<"1", "0", "U+2013", "2", "0", NBSP, "B", "ä", "r">>
L_Inverted == <<"5", "0", "-", "4", "1", " ", "O", "g", "e", "r">>
L_RangeMarker == <<"0", "5", "-", "1", "2", " ", "W", "1", "0", "0", "-", "B", "e", "g", "e", "g", "n", "u", "n", "g">>
L_NoText == <<"0", "1", "-", "0", "4">>
L_Marker == <<"W", "1", "0", "0", " ", "B", "e", "g", "e", "g", "n", "u", "n", "g">>
L_Marker2 == <<"B", "e", "g", "e", "g", "n", "u", "n", "g", "e", "n", " ", "(", "w", "1", "0", "0", ")">>
L_Cont == <<"u", "n", "d", " ", "h", "e", "u", "l", "t">>
L_Blank == <<" ", "\t">>

EncLines == {L_WaldStufe1_4, L_Wolf, L_WaldBis, L_Kuestenwald, L_Moor, L_Orks, L_Drache, L_Baer, L_Inverted, L_RangeMarker, L_NoText, L_Marker, L_Marker2, L_Cont, L_Blank}

\* two longer tables, with markers, empty lines and continuation lines
\* between the range lines
LongTable1 == <<L_WaldStufe1_4, L_Wolf, L_Marker2, L_Cont, L_Blank, L_Cont, L_Drache>>

LongTable2 == <<L_Cont, L_Orks, L_Moor, L_NoText, L_Marker, L_Cont, L_RangeMarker, L_Cont, L_WaldBis, L_Inverted, L_Kuestenwald>>

EncFiles ==
    {[exists |-> FALSE, text |-> <<>>]}
       \cup {[exists |-> TRUE, text |-> t] : t \in SeqsUpTo(EncLines, MaxLines)}
       \cup {[exists |-> TRUE, text |-> t] : t \in {LongTable1, LongTable2}}

InitLoad ==
    /\ enc_file \in EncFiles
    /\ cpc = "init"
    /\ lines = <<>>
    /\ lineno = 0
    /\ data = <<>>
    /\ cur_biome = <<>>
    /\ cur_level = <<>>
    /\ pending_range = <<>>
    /\ pending_text_parts = <<>>
    /\ ENCOUNTERS = <<>>
    /\ RollIdle
    /\ CanonIdle
    /\ PickIdle
    /\ BotIdle
    /\ BiomIdle
    /\ InlineIdle
    /\ OracleIdle

NextLoad ==
    \/ InitEncountersEmpty
    \/ LoadBegin
    \/ LoadBlankLine
    \/ LoadHeadingLine
    \/ LoadMarkerLine
    \/ LoadRangeLine
    \/ LoadTextLine
    \/ LoadDroppedLine
    \/ LoadEnd

SpecLoad == InitLoad /\ [][NextLoad]_vars

----------------------------------------------------------------------------
(* ENCOUNTER SYSTEM: pick_encounter *)

\* the code points of the characters of a tier key, for sorted()
CodePoint(c) == IF c = "-" THEN 45 ELSE 48 + DigitVal(c)

\* a < b for str
RECURSIVE StrLess(_, _)
StrLess(a, b) ==
    IF Len(b) = 0 THEN FALSE
    ELSE IF Len(a) = 0 THEN TRUE
    ELSE IF a[1] # b[1] THEN CodePoint(a[1]) < CodePoint(b[1])
    ELSE StrLess(Tail(a), Tail(b))

\* sorted(keys)
RECURSIVE Sorted(_)
Sorted(keys) ==
    IF keys = {} THEN <<>>
    ELSE LET least == CHOOSE k \in keys : \A o \in keys \ {k} : StrLess(k, o)
         IN  <<least>> \o Sorted(keys \ {least})

\* ", ".join(parts)
RECURSIVE JoinComma(_)
JoinComma(parts) ==
    IF Len(parts) = 0 THEN <<>>
    ELSE IF Len(parts) = 1 THEN parts[1]
    ELSE parts[1] \o <<",", " ">> \o JoinComma(Tail(parts))

\* ENCOUNTERS.get(biom, {})
TablesForBiom(enc, biom) == IF biom \in DOMAIN enc THEN enc[biom] ELSE <<>>

\* lines 679-682: the table of the level, or of the levels 11-20 for the
\* two levels it covers; an absent table (None) has found = FALSE
SuperBand == <<"1", "1", "-", "2", "0">>

FallbackLevelsAny == {<<"1", "-", "4">>, <<"5", "-", "1", "0">>, <<"1", "1", "-", "1", "6">>, <<"1", "7", "-", "2", "0">>}
FallbackLevels == {<<"1", "1", "-", "1", "6">>, <<"1", "7", "-", "2", "0">>}

LookupTable(tiers, level) ==
    IF level \in DOMAIN tiers
    THEN [found |-> TRUE, entries |-> tiers[level]]
    ELSE IF level \in FallbackLevels /\ SuperBand \in DOMAIN tiers
         THEN [found |-> TRUE, entries |-> tiers[SuperBand]]
    ELSE [found |-> FALSE, entries |-> <<>>]

\* lines 685-687: the levels the category has tables for
AvailableOrNone(tiers) == <<"k", "e", "i", "n", "e">>
Available(tiers) ==
    IF DOMAIN tiers = {} THEN <<"k", "e", "i", "n", "e">>
    ELSE JoinComma(Sorted(DOMAIN tiers))

\* line 688: the message of the KeyError
NoTableMessage(biom, level, tiers) ==
    Concat(<<<<"K", "e", "i", "n", "e", " ", "T", "a", "b", "e", "l", "l", "e", " ", "f", "ü", "r", " ">>, biom, <<" ">>, level,
             <<".", " ", "V", "e", "r", "f", "ü", "g", "b", "a", "r", ":", " ">>, Available(tiers)>>)

\* lines 691-694: the text of the first entry that holds the roll
GapText == <<"N", "i", "c", "h", "t", "s", " ", "g", "e", "f", "u", "n", "d", "e", "n", ".", " ", "D", "e", "i", "n", "e", " ", "T", "a", "b", "e", "l", "l", "e", " ", "h", "a", "t", " ", "a", "n", " ", "d", "e", "r", " ", "S", "t", "e", "l", "l", "e", " ", "v", "e", "r", "m", "u", "t", "l", "i", "c", "h", " ", "e", "i", "n", "e", " ", "L", "ü", "c", "k", "e", ".">>

RECURSIVE ScanLast(_, _, _)
ScanLast(table, roll, i) ==
    IF i < 1 THEN GapText
    ELSE IF table[i][1] <= roll /\ roll <= table[i][2] THEN table[i][3]
    ELSE ScanLast(table, roll, i - 1)

RECURSIVE ScanFrom(_, _, _)
ScanFrom(table, roll, i) ==
    IF i > Len(table) THEN GapText
    ELSE IF table[i][1] <= roll /\ roll <= table[i][2] THEN table[i][3]
    ELSE ScanFrom(table, roll, i + 1)

ScanTableBackwards(table, roll) == ScanLast(table, roll, Len(table))
ScanTable(table, roll) == ScanFrom(table, roll, 1)

\* the table pick_encounter(biom, level) rolls on
PickTable(biom, level) ==
    LookupTable(TablesForBiom(ENCOUNTERS, CanonicalEncBiom(biom)), level)

\* a caller of pick_encounter
Callable == ppc \in {"idle", "returned", "raised"}

\* lines 676-688: there is no table (None or empty) and KeyError is raised
PickNoTable(biom, level) ==
    /\ Callable
    /\ PickTable(biom, level).entries = <<>>
    /\ pick_biom' = biom
    /\ pick_level' = level
    /\ pick_roll' = 0
    /\ pick_result' =
          [kind |-> "KeyError", roll |-> 0,
           txt |-> NoTableMessage(CanonicalEncBiom(biom), level,
                      TablesForBiom(ENCOUNTERS, CanonicalEncBiom(biom)))]
    /\ ppc' = "raised"
    /\ PickFrame

\* lines 676-683: a table is found
PickFound(biom, level) ==
    /\ Callable
    /\ PickTable(biom, level).entries # <<>>
    /\ pick_biom' = biom
    /\ pick_level' = level
    /\ pick_roll' = 0
    /\ pick_result' = NoResult
    /\ ppc' = "draw"
    /\ PickFrame

\* lines 690-694: the roll and the scan of the table
PickRoll ==
    /\ ppc = "draw"
    /\ \E roll \in RandInt(1, 100) :
          /\ pick_roll' = roll
          /\ pick_result' =
                [kind |-> "ok", roll |-> roll,
                 txt |-> ScanTable(PickTable(pick_biom, pick_level).entries,
                                   roll)]
    /\ ppc' = "returned"
    /\ UNCHANGED <<pick_biom, pick_level>>
    /\ PickFrame

\* The tables pick_encounter is called with: the tables init_encounters
\* compiles from no file and from two texts, which give categories with and
\* without an alias, overlapping entries, gaps, and the levels 11-20 with
\* and without a table of the level asked for.
L_Wald11_16 == <<"W", "a", "l", "d", " ", "(", "S", "t", "u", "f", "e", " ", "1", "1", "-", "1", "6", ")">>

PickText1 ==
    <<L_WaldStufe1_4, L_Wolf, L_Baer, L_Cont, L_WaldBis, L_Drache, L_Moor,
      L_Orks>>

PickText2 ==
    <<L_Wald11_16, L_Inverted, L_WaldBis, L_Drache, L_Kuestenwald, L_Wolf,
      L_Orks>>

PickFiles ==
    {[exists |-> FALSE, text |-> <<>>], [exists |-> TRUE, text |-> PickText1],
     [exists |-> TRUE, text |-> PickText2]}

PickBioms ==
    {<<"w", "a", "l", "d">>,
     <<"W", "a", "l", "d">>,
     <<"W", "A", "L", "D">>,
     <<" ", "W", "a", "l", "d", "r", "a", "n", "d", " ">>,
     <<"M", "o", "o", "r">>,
     <<"m", "o", "o", "r">>,
     <<"K", "ü", "s", "t", "e", "n", "w", "a", "l", "d">>,
     <<"k", "u", "e", "s", "t", "e", "n">>,
     <<"B", "e", "r", "g">>,
     <<>>}

PickLevels ==
    {<<"1", "-", "4">>,
     <<"5", "-", "1", "0">>,
     <<"1", "1", "-", "1", "6">>,
     <<"1", "7", "-", "2", "0">>,
     <<"1", "1", "-", "2", "0">>,
     <<"2", "-", "3">>}

InitPick ==
    /\ \E f \in PickFiles :
          /\ enc_file = f
          /\ ENCOUNTERS = InitEncounters(f)
    /\ cpc = "done"
    /\ lines = <<>>
    /\ lineno = 0
    /\ data = <<>>
    /\ cur_biome = <<>>
    /\ cur_level = <<>>
    /\ pending_range = <<>>
    /\ pending_text_parts = <<>>
    /\ PickIdle
    /\ BotIdle
    /\ BiomIdle
    /\ InlineIdle
    /\ OracleIdle
    /\ RollIdle
    /\ CanonIdle

NextPick ==
    \/ \E biom \in PickBioms, level \in PickLevels : PickNoTable(biom, level)
    \/ \E biom \in PickBioms, level \in PickLevels : PickFound(biom, level)
    \/ PickRoll

SpecPick == InitPick /\ [][NextPick]_vars

----------------------------------------------------------------------------
(* THE BOT: updates, dispatch and the handlers with state *)

\* dict.get(key, default) and dict.pop(key, None)
DictGet(d, key, default) == IF key \in DOMAIN d THEN d[key] ELSE default

DictPop(d, key) == [k \in DOMAIN d \ {key} |-> d[k]]

\* the users and chats that write to the bot; a conversation of a
\* ConversationHandler is keyed by chat and user
Users == {"u1"}

Chats == {"c1"}

ConvKeys == Chats \X Users

KeyOf(u) == <<u.chat, u.user>>

\* what an update holds besides its chat and user
Command(name, arg) == [kind |-> "command", name |-> name, arg |-> arg]

Callback(name, arg) == [kind |-> "callback", name |-> name, arg |-> arg]

\* the three ConversationHandlers of main, in the order they are added
Flows == <<"treasure", "encounter", "oracle">>

END == "END"

EntryCommand ==
    ("treasure" :> "rollschatz") @@ ("encounter" :> "rollencounter")
       @@ ("oracle" :> "rolloracle")

EntryHandler ==
    ("treasure" :> "rollschatz_start")
       @@ ("encounter" :> "rollencounter_start")
       @@ ("oracle" :> "rolloracle_start")

CancelHandler ==
    ("treasure" :> "rollschatz_cancel_cb")
       @@ ("encounter" :> "rollencounter_cancel")
       @@ ("oracle" :> "rolloracle_cancel")

\* allow_reentry of the three ConversationHandlers
AllowReentryOff == FALSE
AllowReentry == TRUE

\* the handler of the state st of flow f that takes the update u, "none"
\* when the state has none for it
StateHandler(f, st, u) ==
    IF u.kind = "callback"
    THEN IF f = "treasure" /\ st = "TREASURE_PICK_TYPE"
              /\ u.name = "treasure_type" THEN "rollschatz_pick_type"
         ELSE IF f = "treasure" /\ st = "TREASURE_PICK_CR"
              /\ u.name = "treasure_cr" THEN "rollschatz_pick_cr"
         ELSE IF f = "treasure" /\ u.name = "treasure_cancel"
              THEN "rollschatz_cancel_cb"
         ELSE IF f = "encounter" /\ st = "ENC_CONFIRM"
              /\ u.name = "enc_confirm" THEN "rollencounter_confirm"
         ELSE IF f = "encounter" /\ st = "ENC_PICK_BIOM"
              /\ u.name = "enc_biom" THEN "rollencounter_pick_biom"
         ELSE IF f = "encounter" /\ st = "ENC_PICK_LEVEL"
              /\ u.name = "enc_lvl" THEN "rollencounter_pick_level"
         ELSE IF f = "oracle" /\ st = "ORACLE_ODDS"
              /\ u.name = "oracle_odds" THEN "rolloracle_pick_odds"
         ELSE IF f = "oracle" /\ st = "ORACLE_CHAOS"
              /\ u.name = "oracle_chaos" THEN "rolloracle_pick_chaos"
         ELSE "none"
    ELSE IF u.kind = "text" /\ f = "oracle" /\ st = "ORACLE_QUESTION"
         THEN "rolloracle_question"
    ELSE "none"

\* ConversationHandler.check_update: in a conversation that is not running
\* only the entry point is tried; in a running one the entry point (with
\* allow_reentry), then the handlers of its state, then the fallback
ConvHandler(f, u) ==
    LET st == conv[f][KeyOf(u)]
        entry == u.kind = "command" /\ u.name = EntryCommand[f]
        handler == StateHandler(f, st, u)
    IN  IF st = END
        THEN IF entry THEN EntryHandler[f] ELSE "none"
        ELSE IF AllowReentry /\ entry THEN EntryHandler[f]
        ELSE IF handler # "none" THEN handler
        ELSE IF u.kind = "command" /\ u.name = "cancel"
             THEN CancelHandler[f]
        ELSE "none"

\* the first of the three ConversationHandlers that takes the update
RECURSIVE FirstConvHandler(_, _)
FirstConvHandler(u, i) ==
    IF i > Len(Flows) THEN "none"
    ELSE LET handler == ConvHandler(Flows[i], u)
         IN  IF handler # "none" THEN handler
             ELSE FirstConvHandler(u, i + 1)

\* main, lines 2596-2658: the handler that gets the update, the first in
\* the order of add_handler that accepts it
Dispatch(u) ==
    IF u.kind = "command" /\ u.name \in {"rollchance", "rollwaldkarte",
                                            "setbiom", "rollbiom"}
    THEN u.name
    ELSE IF u.kind = "callback" /\ u.name = "waldkarte_level"
         THEN "rollwaldkarte_pick_level"
    ELSE IF u.kind = "callback" /\ u.name = "biom_set" THEN "setbiom_pick"
    ELSE FirstConvHandler(u, 1)

\* the kind and name of the updates each handler is added for in main; the
\* cancel handlers and the handler of the question come after
Registration ==
    [rollchance |-> Command("rollchance", <<>>),
     rollwaldkarte |-> Command("rollwaldkarte", <<>>),
     rollwaldkarte_pick_level |-> Callback("waldkarte_level", <<>>),
     setbiom |-> Command("setbiom", <<>>),
     rollbiom |-> Command("rollbiom", <<>>),
     setbiom_pick |-> Callback("biom_set", <<>>),
     rollschatz_start |-> Command("rollschatz", <<>>),
     rollschatz_pick_type |-> Callback("treasure_type", <<>>),
     rollschatz_pick_cr |-> Callback("treasure_cr", <<>>),
     rollencounter_start |-> Command("rollencounter", <<>>),
     rollencounter_confirm |-> Callback("enc_confirm", <<>>),
     rollencounter_pick_biom |-> Callback("enc_biom", <<>>),
     rollencounter_pick_level |-> Callback("enc_lvl", <<>>),
     rolloracle_start |-> Command("rolloracle", <<>>),
     rolloracle_pick_odds |-> Callback("oracle_odds", <<>>),
     rolloracle_pick_chaos |-> Callback("oracle_chaos", <<>>)]

\* the filter of handler h accepts the update u
Registered(h, u) ==
    IF h = "rolloracle_question" THEN u.kind = "text"
    ELSE IF h \in {"rollencounter_cancel", "rolloracle_cancel"}
         THEN u.kind = "command" /\ u.name = "cancel"
    ELSE IF h = "rollschatz_cancel_cb"
         THEN \/ u.kind = "command" /\ u.name = "cancel"
              \/ u.kind = "callback" /\ u.name = "treasure_cancel"
    ELSE /\ u.kind = Registration[h].kind
         /\ u.name = Registration[h].name

\* the handler h takes the update u: its filter accepts it and no handler
\* before it does
Handles(h, u) ==
    /\ h # "none" => Registered(h, u)
    /\ Dispatch(u) = h

\* the number of updates the handlers of a run take
MaxUpdates == 5

\* a handler takes update u
Took(u) ==
    /\ handled < MaxUpdates
    /\ update' = u
    /\ handled' = handled + 1

\* a handler that calls no resolver takes the update
Deliver(u) ==
    /\ Took(u)
    /\ called' = <<>>

\* the conversation of u in flow f moves to state st
ConvTo(f, u, st) ==
    [conv EXCEPT ![f] = [@ EXCEPT ![KeyOf(u)] = st]]

\* the keys of user_data the resolving handler of a flow reads
ResolutionReads ==
    [treasure |-> {"treasure_type"},
     encounter |-> {"enc_biome"},
     oracle |-> {"oracle_question", "oracle_odds"},
     waldkarte |-> {"waldkarte_pending"}]

\* an attempt of flow f is in an intermediate state where u arrives: the
\* conversation is running, a selection of the forest card is pending
Intermediate(f, u) ==
    IF f = "waldkarte" THEN "waldkarte_pending" \in DOMAIN user_data[u.user]
    ELSE conv[f][KeyOf(u)] # END

\* the history after a handler wrote and popped keys of the user's data
Touched(fr, usr, written, popped) ==
    [f \in DOMAIN fr |->
        [k \in DOMAIN fr[f] |->
            IF k[2] = usr
            THEN [fr[f][k] EXCEPT !.keys =
                     ((@ \ popped) \cup written) \cap ResolutionReads[f]]
            ELSE fr[f][k]]]

\* the history after the conversation of u entered flow f, the entry
\* handler having popped and then written keys
Entered(fr, f, u, written, popped) ==
    [Touched(fr, u.user, written, popped) EXCEPT
        ![f] = [@ EXCEPT ![KeyOf(u)] =
                   [keys |-> written \cap ResolutionReads[f],
                    again |-> Intermediate(f, u)]]]

----------------------------------------------------------------------------
(* ORACLE SYSTEM *)

BASE_CHANCE ==
    (<<"i", "m", "p", "o", "s", "s", "i", "b", "l", "e">> :> 1)
    @@ (<<"n", "o", "_", "w", "a", "y">> :> 5)
    @@ (<<"v", "e", "r", "y", "_", "u", "n", "l", "i", "k", "e", "l", "y">> :> 15)
    @@ (<<"u", "n", "l", "i", "k", "e", "l", "y">> :> 25)
    @@ (<<"f", "i", "f", "t", "y", "_", "f", "i", "f", "t", "y">> :> 50)
    @@ (<<"s", "o", "m", "e", "w", "h", "a", "t", "_", "l", "i", "k", "e", "l", "y">> :> 65)
    @@ (<<"l", "i", "k", "e", "l", "y">> :> 75)
    @@ (<<"v", "e", "r", "y", "_", "l", "i", "k", "e", "l", "y">> :> 85)
    @@ (<<"n", "e", "a", "r", "_", "s", "u", "r", "e">> :> 90)
    @@ (<<"a", "_", "s", "u", "r", "e", "_", "t", "h", "i", "n", "g">> :> 95)
    @@ (<<"h", "a", "s", "_", "t", "o", "_", "b", "e">> :> 99)

\* BASE_CHANCE[odds_key] does not raise KeyError
KnownOdds(odds_key) == odds_key \in DOMAIN BASE_CHANCE

clampAbove(n, lo, hi) == IF hi < n THEN hi ELSE n
clamp(n, lo, hi) ==
    LET m == IF hi < n THEN hi ELSE n
    IN  IF lo > m THEN lo ELSE m

\* oracle_outcome for a roll of the d100
OracleOutcome(odds_key, chaos_rank, roll) ==
    LET chance == clamp(BASE_CHANCE[odds_key] + (chaos_rank - 5) * 5, 0, 100)
        ex_yes == IF chance = 0 THEN 0
                  ELSE IF chance \div 5 < 1 THEN 1 ELSE chance \div 5
        fail_size == 100 - chance
        ex_no_size == IF fail_size = 0 THEN 0 ELSE (fail_size + 4) \div 5
        ex_no_start == IF ex_no_size = 0 THEN 101 ELSE 101 - ex_no_size
        result == IF chance > 0 /\ roll <= ex_yes THEN "Außergewöhnlich Ja"
                  ELSE IF roll <= chance THEN "Ja"
                  ELSE IF chance < 100 /\ roll >= ex_no_start
                       THEN "Außergewöhnlich Nein"
                  ELSE "Nein"
    IN  [roll |-> roll, chance |-> chance, ex_yes |-> ex_yes,
         ex_no_start |-> ex_no_start, result |-> result,
         random_event |-> (roll % 11 = 0 /\ roll <= chaos_rank)]

NoQuestion == <<"O", "h", "n", "e", " ", "k", "o", "n", "k", "r", "e", "t", "e", " ", "F", "r", "a", "g", "e">>

DefaultOdds == <<"f", "i", "f", "t", "y", "_", "f", "i", "f", "t", "y">>

\* rolloracle_start
RollOracleStart(u) ==
    /\ Handles("rolloracle_start", u)
    /\ LET popped == DictPop(DictPop(DictPop(user_data[u.user],
                          "oracle_question"), "oracle_odds"), "oracle_chaos")
       IN  IF u.arg # <<>>
           THEN /\ user_data' = [user_data EXCEPT ![u.user] =
                        DictPut(popped, "oracle_question", Strip(u.arg))]
                /\ conv' = ConvTo("oracle", u, "ORACLE_ODDS")
                /\ fresh' = Entered(fresh, "oracle", u, {"oracle_question"},
                                {"oracle_odds", "oracle_chaos"})
           ELSE /\ user_data' = [user_data EXCEPT ![u.user] = popped]
                /\ conv' = ConvTo("oracle", u, "ORACLE_QUESTION")
                /\ fresh' = Entered(fresh, "oracle", u, {},
                                {"oracle_question", "oracle_odds",
                                 "oracle_chaos"})
    /\ Deliver(u)
    /\ reply' = [handler |-> "rolloracle_start"]
    /\ BotFrame

\* rolloracle_question
RollOracleQuestion(u) ==
    /\ Handles("rolloracle_question", u)
    /\ user_data' = [user_data EXCEPT ![u.user] =
           DictPut(@, "oracle_question",
                   IF Strip(u.arg) # <<>> THEN Strip(u.arg) ELSE NoQuestion)]
    /\ conv' = ConvTo("oracle", u, "ORACLE_ODDS")
    /\ fresh' = Touched(fresh, u.user, {"oracle_question"}, {})
    /\ Deliver(u)
    /\ reply' = [handler |-> "rolloracle_question"]
    /\ BotFrame

\* rolloracle_pick_odds
RollOraclePickOdds(u) ==
    /\ Handles("rolloracle_pick_odds", u)
    /\ user_data' = [user_data EXCEPT ![u.user] =
           DictPut(@, "oracle_odds", u.arg)]
    /\ conv' = ConvTo("oracle", u, "ORACLE_CHAOS")
    /\ fresh' = Touched(fresh, u.user, {"oracle_odds"}, {})
    /\ Deliver(u)
    /\ reply' = [handler |-> "rolloracle_pick_odds"]
    /\ BotFrame

\* rolloracle_pick_chaos; an exception leaves the handler before it returns
\* the next state, so the conversation stays where it is
RollOraclePickChaos(u) ==
    /\ Handles("rolloracle_pick_chaos", u)
    /\ LET odds_key == DictGet(user_data[u.user], "oracle_odds", DefaultOdds)
           question == DictGet(user_data[u.user], "oracle_question",
                               NoQuestion)
       IN  IF ~IntAccepts(u.arg)
           THEN /\ reply' = [handler |-> "rolloracle_pick_chaos",
                             raised |-> "ValueError"]
                /\ called' = <<>>
                /\ UNCHANGED <<user_data, conv, fresh>>
           ELSE /\ user_data' = [user_data EXCEPT ![u.user] =
                       DictPut(@, "oracle_chaos", ParseInt(u.arg))]
                /\ fresh' = Touched(fresh, u.user, {"oracle_chaos"}, {})
                /\ called' = <<"oracle_outcome">>
                /\ IF ~KnownOdds(odds_key)
                   THEN /\ reply' = [handler |-> "rolloracle_pick_chaos",
                                     raised |-> "KeyError"]
                        /\ UNCHANGED conv
                   ELSE /\ \E result \in
                               {OracleOutcome(odds_key, ParseInt(u.arg),
                                              roll).result :
                                   roll \in RandInt(1, 100)} :
                             reply' = [handler |-> "rolloracle_pick_chaos",
                                       raised |-> "",
                                       question |-> question,
                                       odds |-> odds_key,
                                       chaos |-> ParseInt(u.arg),
                                       result |-> result]
                        /\ conv' = ConvTo("oracle", u, END)
    /\ Took(u)
    /\ BotFrame

\* rolloracle_cancel
RollOracleCancel(u) ==
    /\ Handles("rolloracle_cancel", u)
    /\ conv' = ConvTo("oracle", u, END)
    /\ Deliver(u)
    /\ reply' = [handler |-> "rolloracle_cancel"]
    /\ UNCHANGED <<user_data, fresh>>
    /\ BotFrame

----------------------------------------------------------------------------
(* ROLLSCHATZ SYSTEM *)

DefaultTreasureType == <<"s", "i", "n", "g", "l", "e">>

\* rollschatz_start
RollSchatzStart(u) ==
    /\ Handles("rollschatz_start", u)
    /\ user_data' = [user_data EXCEPT ![u.user] =
           DictPop(DictPop(@, "treasure_type"), "treasure_cr")]
    /\ conv' = ConvTo("treasure", u, "TREASURE_PICK_TYPE")
    /\ fresh' = Entered(fresh, "treasure", u, {},
                         {"treasure_type", "treasure_cr"})
    /\ Deliver(u)
    /\ reply' = [handler |-> "rollschatz_start"]
    /\ BotFrame

\* rollschatz_pick_type
RollSchatzPickType(u) ==
    /\ Handles("rollschatz_pick_type", u)
    /\ user_data' = [user_data EXCEPT ![u.user] =
           DictPut(@, "treasure_type", u.arg)]
    /\ conv' = ConvTo("treasure", u, "TREASURE_PICK_CR")
    /\ fresh' = Touched(fresh, u.user, {"treasure_type"}, {})
    /\ Deliver(u)
    /\ reply' = [handler |-> "rollschatz_pick_type"]
    /\ BotFrame

\* rollschatz_pick_cr; of the treasure it generates the reply keeps which
\* generator ran and for which band
RollSchatzPickCr(u) ==
    /\ Handles("rollschatz_pick_cr", u)
    /\ user_data' = [user_data EXCEPT ![u.user] =
           DictPut(@, "treasure_cr", u.arg)]
    /\ reply' = [handler |-> "rollschatz_pick_cr",
                 generator |->
                    IF DictGet(user_data[u.user], "treasure_type",
                               DefaultTreasureType) = <<"h", "o", "a", "r", "d">>
                    THEN "generate_hoard_treasure"
                    ELSE "generate_single_treasure",
                 ttype |-> DictGet(user_data[u.user], "treasure_type",
                                   DefaultTreasureType),
                 cr |-> u.arg]
    /\ called' = <<reply'.generator>>
    /\ conv' = ConvTo("treasure", u, END)
    /\ fresh' = Touched(fresh, u.user, {"treasure_cr"}, {})
    /\ Took(u)
    /\ BotFrame

\* rollschatz_cancel_cb
RollSchatzCancelCb(u) ==
    /\ Handles("rollschatz_cancel_cb", u)
    /\ conv' = ConvTo("treasure", u, END)
    /\ Deliver(u)
    /\ reply' = [handler |-> "rollschatz_cancel_cb"]
    /\ UNCHANGED <<user_data, fresh>>
    /\ BotFrame

----------------------------------------------------------------------------
(* BIOM SYSTEM *)

SURFACE_BIOMES ==
    <<<<"A", "r", "k", "t", "i", "s">>, <<"K", "ü", "s", "t", "e">>, <<"W", "ü", "s", "t", "e">>, <<"W", "a", "l", "d">>,
      <<"G", "r", "a", "s", "l", "a", "n", "d">>, <<"H", "ü", "g", "e", "l">>, <<"B", "e", "r", "g">>, <<"S", "u", "m", "p", "f">>>>

SPECIAL_BIOMES == <<<<"U", "n", "t", "e", "r", "r", "e", "i", "c", "h">>,
                    <<"W", "a", "s", "s", "e", "r">>,
                    <<"S", "t", "a", "d", "t", "/", "D", "o", "r", "f">>>>

ALL_BIOMES == SURFACE_BIOMES \o SPECIAL_BIOMES

StadtDorf == <<"S", "t", "a", "d", "t", "/", "D", "o", "r", "f">>

StadtDorfWords ==
    {<<"s", "t", "a", "d", "t">>,
     <<"d", "o", "r", "f">>,
     <<"s", "t", "a", "d", "t", " ", "d", "o", "r", "f">>,
     <<"s", "t", "a", "d", "t", "/", "d", "o", "r", "f">>,
     <<"s", "t", "a", "d", "t", "\\", "d", "o", "r", "f">>}

\* normalize_biom; None is <<>>
NormalizeBiom(text) ==
    LET t == Lower(Strip(text))
        same == {i \in 1..Len(ALL_BIOMES) : Lower(ALL_BIOMES[i]) = t}
    IN  IF t = <<>> THEN <<>>
        ELSE IF t \in StadtDorfWords THEN StadtDorf
        ELSE IF same # {}
             THEN ALL_BIOMES[CHOOSE i \in same : \A j \in same : i <= j]
        ELSE <<>>

\* what setbiom and setbiom_pick do with the name they are given
SetCurrentBiomAny(u, handler, biom) ==
    IF biom = <<>>
    THEN /\ reply' = [handler |-> handler, set |-> FALSE]
         /\ UNCHANGED <<user_data, fresh>>
    ELSE /\ user_data' = [user_data EXCEPT ![u.user] =
                DictPut(@, "current_biom", biom)]
         /\ fresh' = Touched(fresh, u.user, {"current_biom"}, {})
         /\ reply' = [handler |-> handler, set |-> TRUE]
SetCurrentBiom(u, handler, biom) ==
    IF biom = <<>> \/ biom = StadtDorf
    THEN /\ reply' = [handler |-> handler, set |-> FALSE]
         /\ UNCHANGED <<user_data, fresh>>
    ELSE /\ user_data' = [user_data EXCEPT ![u.user] =
                DictPut(@, "current_biom", biom)]
         /\ fresh' = Touched(fresh, u.user, {"current_biom"}, {})
         /\ reply' = [handler |-> handler, set |-> TRUE]

\* setbiom
SetBiom(u) ==
    /\ Handles("setbiom", u)
    /\ IF u.arg = <<>>
       THEN /\ reply' = [handler |-> "setbiom", set |-> FALSE]
            /\ UNCHANGED <<user_data, fresh>>
       ELSE SetCurrentBiom(u, "setbiom", NormalizeBiom(Strip(u.arg)))
    /\ Deliver(u)
    /\ UNCHANGED conv
    /\ BotFrame

\* setbiom_pick
SetBiomPick(u) ==
    /\ Handles("setbiom_pick", u)
    /\ SetCurrentBiom(u, "setbiom_pick", NormalizeBiom(u.arg))
    /\ Deliver(u)
    /\ UNCHANGED conv
    /\ BotFrame

\* roll_biom computes with floats; every weight it computes (66, 5, 10,
\* 14/7, 19/8, 24/8) is a whole number of eighths, which a float holds
\* exactly: the model counts eighths
WeightDenominator == 8

Eighths(points) == points * WeightDenominator

\* roll_biom, lines 395-399: the dict fixed, in the order of its keys
fixed ==
    <<[biom |-> <<"W", "a", "s", "s", "e", "r">>, weight |-> 5],
      [biom |-> <<"U", "n", "t", "e", "r", "r", "e", "i", "c", "h">>,
       weight |-> 5],
      [biom |-> StadtDorf, weight |-> 10]>>

\* roll_biom, line 400
current_weight == 66

\* fixed_for_roll: fixed without the current biome
FixedForRoll(current) == SelectSeq(fixed, LAMBDA e : e.biom # current)

RECURSIVE SumOfWeights(_)
SumOfWeights(entries) ==
    IF entries = <<>> THEN 0
    ELSE Head(entries).weight + SumOfWeights(Tail(entries))

\* remaining = 100.0 - total_fixed, in eighths
Remaining(current) ==
    Eighths(100) - (Eighths(current_weight)
                      + Eighths(SumOfWeights(FixedForRoll(current))))

\* others: the biomes that are neither current nor a key of fixed_for_roll
OthersWithFixed(current) ==
    SelectSeq(ALL_BIOMES, LAMBDA b : b # current)
Others(current) ==
    SelectSeq(ALL_BIOMES,
              LAMBDA b : /\ b # current
                         /\ \A i \in 1..Len(FixedForRoll(current)) :
                               FixedForRoll(current)[i].biom # b)

\* per_other = remaining / len(others) if others else 0.0
PerOther(current) ==
    IF Others(current) = <<>> THEN 0
    ELSE Remaining(current) \div Len(Others(current))

\* the lists choices and weights
ChoicesOf(current) ==
    <<current>>
       \o [i \in 1..Len(FixedForRoll(current)) |->
              FixedForRoll(current)[i].biom]
       \o Others(current)

WeightsOf(current) ==
    <<Eighths(current_weight)>>
       \o [i \in 1..Len(FixedForRoll(current)) |->
              Eighths(FixedForRoll(current)[i].weight)]
       \o [i \in 1..Len(Others(current)) |-> PerOther(current)]

\* random.choices: the weights are accumulated, a point is drawn uniformly
\* below their total and the first candidate whose accumulated weight lies
\* above the point is taken; of the point the eighth it falls in decides
RECURSIVE Accumulated(_, _)
Accumulated(w, i) == IF i = 0 THEN 0 ELSE w[i] + Accumulated(w, i - 1)

Tickets(w) == 0..(Accumulated(w, Len(w)) - 1)

RandomChoice(ch, w, ticket) ==
    LET above == {i \in 1..Len(w) : Accumulated(w, i) > ticket}
    IN  ch[CHOOSE i \in above : \A j \in above : i <= j]

\* roll_biom, lines 417-420: what is returned for the candidate drawn; None
\* is <<>>
RollBiomReturnDrawn(current, drawn) ==
    [rolled |-> drawn, display |-> drawn, new_current |-> drawn]
RollBiomReturn(current, drawn) ==
    IF drawn = StadtDorf
    THEN [rolled |-> drawn,
          display |-> drawn \o <<" ", "(", "a", "u", "f", " ">> \o current
                         \o <<")">>,
          new_current |-> <<>>]
    ELSE [rolled |-> drawn, display |-> drawn, new_current |-> drawn]

\* roll_biom: the biome is not known
RollBiomRaise ==
    /\ bpc = "call"
    /\ \A i \in 1..Len(ALL_BIOMES) : ALL_BIOMES[i] # current_biom
    /\ bpc' = "raised"
    /\ UNCHANGED <<current_biom, choices, weights, rolled, display,
                   new_current>>
    /\ BiomFrame

\* roll_biom, lines 395-413: the candidates and their weights
RollBiomWeigh ==
    /\ bpc = "call"
    /\ \E i \in 1..Len(ALL_BIOMES) : ALL_BIOMES[i] = current_biom
    /\ choices' = ChoicesOf(current_biom)
    /\ weights' = WeightsOf(current_biom)
    /\ bpc' = "weighed"
    /\ UNCHANGED <<current_biom, rolled, display, new_current>>
    /\ BiomFrame

\* roll_biom, lines 415-420: the draw and the return
RollBiomChoose ==
    /\ bpc = "weighed"
    /\ \E ticket \in Tickets(weights) :
          LET r == RollBiomReturn(current_biom,
                                  RandomChoice(choices, weights, ticket))
          IN  /\ rolled' = r.rolled
              /\ display' = r.display
              /\ new_current' = r.new_current
    /\ bpc' = "done"
    /\ UNCHANGED <<current_biom, choices, weights>>
    /\ BiomFrame

\* the candidates random.choices can draw: those some point falls to, which
\* are those of a weight above zero
Drawable(ch, w) == {ch[i] : i \in {j \in 1..Len(ch) : w[j] > 0}}

\* what roll_biom can return for a known biome
RollBiomReturns(current) ==
    {RollBiomReturn(current, drawn) :
        drawn \in Drawable(ChoicesOf(current), WeightsOf(current))}

\* rollbiom: a biome given with the command is stored before the roll; the
\* roll replaces the stored biome unless roll_biom returns None for it
RollBiom(u) ==
    /\ Handles("rollbiom", u)
    /\ LET biom_norm == NormalizeBiom(Strip(u.arg))
           given == IF u.arg # <<>>
                    THEN DictPut(user_data[u.user], "current_biom", biom_norm)
                    ELSE user_data[u.user]
           current == DictGet(given, "current_biom", <<>>)
       IN  IF u.arg # <<>> /\ biom_norm = <<>>
           THEN /\ reply' = [handler |-> "rollbiom", said |-> "unknown"]
                /\ UNCHANGED <<user_data, fresh>>
           ELSE IF u.arg # <<>> /\ biom_norm = StadtDorf
           THEN /\ reply' = [handler |-> "rollbiom", said |-> "stadt_dorf"]
                /\ UNCHANGED <<user_data, fresh>>
           ELSE IF current = <<>>
           THEN /\ reply' = [handler |-> "rollbiom", said |-> "not_set"]
                /\ UNCHANGED <<user_data, fresh>>
           ELSE IF \A i \in 1..Len(ALL_BIOMES) : ALL_BIOMES[i] # current
           THEN /\ reply' = [handler |-> "rollbiom", said |-> "ValueError"]
                /\ user_data' = [user_data EXCEPT ![u.user] = given]
                /\ fresh' = Touched(fresh, u.user, {"current_biom"}, {})
           ELSE \E r \in RollBiomReturns(current) :
                   /\ reply' = [handler |-> "rollbiom", said |-> "rolled",
                                current |-> current, rolled |-> r.rolled,
                                display |-> r.display,
                                new_current |-> r.new_current]
                   /\ user_data' = [user_data EXCEPT ![u.user] =
                          IF r.new_current # <<>>
                          THEN DictPut(given, "current_biom", r.new_current)
                          ELSE given]
                   /\ fresh' = Touched(fresh, u.user, {"current_biom"}, {})
    /\ Deliver(u)
    /\ UNCHANGED conv
    /\ BotFrame

\* the commands and the button of the biome
BiomContents ==
    {Command("rollbiom", <<>>), Command("rollbiom", <<"w", "a", "l", "d">>),
     Command("rollbiom", <<"s", "t", "a", "d", "t">>),
     Command("rollbiom", <<"M", "o", "o", "r">>),
     Command("setbiom", <<"W", "a", "s", "s", "e", "r">>),
     Command("setbiom", <<"D", "o", "r", "f">>),
     Callback("biom_set", <<"B", "e", "r", "g">>),
     Callback("biom_set", <<"S", "t", "a", "d", "t", "/", "D", "o", "r", "f">>)}

\* the biomes roll_biom is called with: the known ones and one that is not
BiomInputs ==
    {ALL_BIOMES[i] : i \in 1..Len(ALL_BIOMES)} \cup {<<"M", "o", "o", "r">>}

InitBiom ==
    /\ current_biom \in BiomInputs
    /\ bpc = "call"
    /\ choices = <<>>
    /\ weights = <<>>
    /\ rolled = <<>>
    /\ display = <<>>
    /\ new_current = <<>>
    /\ RollIdle
    /\ CanonIdle
    /\ LoadIdle
    /\ ENCOUNTERS = <<>>
    /\ PickIdle
    /\ InlineIdle
    /\ OracleIdle
    /\ BotIdle

NextBiom ==
    \/ RollBiomRaise
    \/ RollBiomWeigh
    \/ RollBiomChoose

SpecBiom == InitBiom /\ [][NextBiom]_vars

----------------------------------------------------------------------------
(* ENCOUNTER SYSTEM: the conversation *)

\* _biom_for_encounter_from_current
BiomForEncounterFromCurrent(current) ==
    IF current = <<"W", "a", "s", "s", "e", "r">> THEN <<"U", "n", "t", "e", "r", "w", "a", "s", "s", "e", "r">> ELSE current

\* `if not ENCOUNTERS`, lines 720 and 1124: no table is loaded
NoTablesNever == FALSE
NoTables == ENCOUNTERS = <<>>

\* rollencounter_start, lines 720-725: no tables are loaded
RollEncounterStartNoTables(u) ==
    /\ Handles("rollencounter_start", u)
    /\ NoTables
    /\ conv' = ConvTo("encounter", u, END)
    /\ Deliver(u)
    /\ reply' = [handler |-> "rollencounter_start", started |-> FALSE,
                 said |-> "no_tables"]
    /\ UNCHANGED <<user_data, fresh>>
    /\ BotFrame

\* the biome rollencounter_start stores for the name given: lines 728-730
StoredEncBiomeRaw(raw) == raw
StoredEncBiome(raw) ==
    BiomForEncounterFromCurrent(
        IF NormalizeBiom(raw) # <<>> THEN NormalizeBiom(raw)
        ELSE CanonicalEncBiom(raw))

\* rollencounter_start, lines 727-733: the biome is given with the command
RollEncounterStartArgs(u) ==
    /\ Handles("rollencounter_start", u)
    /\ ~NoTables
    /\ u.arg # <<>>
    /\ user_data' = [user_data EXCEPT ![u.user] =
           DictPut(@, "enc_biome", StoredEncBiome(Strip(u.arg)))]
    /\ conv' = ConvTo("encounter", u, "ENC_PICK_LEVEL")
    /\ fresh' = Entered(fresh, "encounter", u, {"enc_biome"}, {})
    /\ Deliver(u)
    /\ reply' = [handler |-> "rollencounter_start", started |-> TRUE,
                 said |-> "pick_level"]
    /\ BotFrame

\* rollencounter_start, lines 735-751: the current biome is offered, if
\* there is one
RollEncounterStartCurrent(u) ==
    /\ Handles("rollencounter_start", u)
    /\ ~NoTables
    /\ u.arg = <<>>
    /\ LET current == DictGet(user_data[u.user], "current_biom", <<>>)
       IN  IF current = <<>>
           THEN /\ conv' = ConvTo("encounter", u, END)
                /\ reply' = [handler |-> "rollencounter_start",
                             started |-> FALSE, said |-> "no_biom"]
                /\ UNCHANGED <<user_data, fresh>>
           ELSE /\ user_data' = [user_data EXCEPT ![u.user] =
                       DictPut(@, "enc_biome",
                               BiomForEncounterFromCurrent(current))]
                /\ conv' = ConvTo("encounter", u, "ENC_CONFIRM")
                /\ fresh' = Entered(fresh, "encounter", u, {"enc_biome"}, {})
                /\ reply' = [handler |-> "rollencounter_start",
                             started |-> TRUE, said |-> "confirm"]
    /\ Deliver(u)
    /\ BotFrame

\* rollencounter_confirm
RollEncounterConfirm(u) ==
    /\ Handles("rollencounter_confirm", u)
    /\ conv' = ConvTo("encounter", u,
                  IF u.arg = <<"y", "e", "s">> THEN "ENC_PICK_LEVEL" ELSE "ENC_PICK_BIOM")
    /\ Deliver(u)
    /\ reply' = [handler |-> "rollencounter_confirm"]
    /\ UNCHANGED <<user_data, fresh>>
    /\ BotFrame

\* rollencounter_pick_biom
RollEncounterPickBiom(u) ==
    /\ Handles("rollencounter_pick_biom", u)
    /\ user_data' = [user_data EXCEPT ![u.user] =
           DictPut(@, "enc_biome", u.arg)]
    /\ conv' = ConvTo("encounter", u, "ENC_PICK_LEVEL")
    /\ fresh' = Touched(fresh, u.user, {"enc_biome"}, {})
    /\ Deliver(u)
    /\ reply' = [handler |-> "rollencounter_pick_biom"]
    /\ BotFrame

\* what pick_encounter(biom, level) gives the handler that calls it: the
\* KeyError, or the text of the table for some roll
PickOutcomes(biom, level) ==
    LET entries == PickTable(biom, level).entries
    IN  IF entries = <<>>
        THEN {[kind |-> "KeyError",
               txt |-> NoTableMessage(CanonicalEncBiom(biom), level,
                          TablesForBiom(ENCOUNTERS, CanonicalEncBiom(biom)))]}
        ELSE {[kind |-> "ok", txt |-> ScanTable(entries, roll)] :
                 roll \in RandInt(1, 100)}

\* rollencounter_pick_level
RollEncounterPickLevel(u) ==
    /\ Handles("rollencounter_pick_level", u)
    /\ LET biom == Strip(DictGet(user_data[u.user], "enc_biome", <<>>))
       IN  \E picked \in PickOutcomes(biom, u.arg) :
              reply' = [handler |-> "rollencounter_pick_level",
                        biom |-> biom, level |-> u.arg, picked |-> picked]
    /\ called' = <<"pick_encounter">>
    /\ conv' = ConvTo("encounter", u, END)
    /\ Took(u)
    /\ UNCHANGED <<user_data, fresh>>
    /\ BotFrame

\* rollencounter_cancel
RollEncounterCancel(u) ==
    /\ Handles("rollencounter_cancel", u)
    /\ conv' = ConvTo("encounter", u, END)
    /\ Deliver(u)
    /\ reply' = [handler |-> "rollencounter_cancel"]
    /\ UNCHANGED <<user_data, fresh>>
    /\ BotFrame

----------------------------------------------------------------------------
(* ROLLCHANCE and WALDKARTE SYSTEM *)

\* _apply_next_reward_bonus_if_any: the flag is set
BonusDue(usr) == DictGet(user_data[usr], "next_reward_bonus_d10x10", FALSE)

\* _apply_next_reward_bonus_if_any, line 848: the flag once the bonus is
\* given
BonusFlagKept == TRUE
BonusFlagUsed == FALSE

\* rollchance, as the command and as called by rollwaldkarte: a set flag is
\* used up and 1d10 x 10 GM are added to the reward; of the rolls the reply
\* keeps the bonus that was added
RollChanceBody(u, handler) ==
    IF BonusDue(u.user)
    THEN /\ user_data' = [user_data EXCEPT ![u.user] =
                DictPut(@, "next_reward_bonus_d10x10", BonusFlagUsed)]
         /\ fresh' = Touched(fresh, u.user,
                             {"next_reward_bonus_d10x10"}, {})
         /\ \E k \in RandInt(1, 10) :
               reply' = [handler |-> handler, result |-> "Skillchance",
                         bonus |-> k * 10]
    ELSE /\ UNCHANGED <<user_data, fresh>>
         /\ reply' = [handler |-> handler, result |-> "Skillchance",
                      bonus |-> 0]

RollChance(u) ==
    /\ Handles("rollchance", u)
    /\ RollChanceBody(u, "rollchance")
    /\ Deliver(u)
    /\ UNCHANGED conv
    /\ BotFrame

WALDKARTE_LEVELS == {<<"1", "-", "4">>, <<"5", "-", "1", "0">>, <<"1", "1", "-", "1", "6">>, <<"1", "7", "-", "2", "0">>}

\* what rollwaldkarte does with the key it sets, if any
WaldkarteSet(u, key, value, result) ==
    /\ user_data' = [user_data EXCEPT ![u.user] = DictPut(@, key, value)]
    /\ fresh' = IF key = "waldkarte_pending"
                THEN Entered(fresh, "waldkarte", u, {key}, {})
                ELSE Touched(fresh, u.user, {key}, {})
    /\ reply' = [handler |-> "rollwaldkarte", result |-> result,
                 noted |-> key]

WaldkarteOnly(result) ==
    /\ reply' = [handler |-> "rollwaldkarte", result |-> result,
                 noted |-> ""]
    /\ UNCHANGED <<user_data, fresh>>

\* the card rollwaldkarte draws with 1d18, and with the 1d4 of card 12 and
\* the 1d6 of cards 15 and 16: its name and the key of user_data it sets
Card(result, key, type, card_roll) ==
    [result |-> result, key |-> key, type |-> type, card_roll |-> card_roll]

WaldkarteCard(roll18, d4, d6) ==
    IF roll18 <= 7 THEN Card("Skillchance", "", "", 0)
    ELSE IF roll18 <= 11 THEN Card("Ruhe", "", "", 0)
    ELSE IF roll18 = 12 THEN Card("Ortschaft", "", "", 0)
    ELSE IF roll18 \in {13, 14}
         THEN Card("Encounter", "waldkarte_pending", "encounter", roll18)
    ELSE IF roll18 \in {15, 16}
         THEN IF d6 = 4
              THEN Card("Entdeckung", "next_reward_bonus_d10x10", "", 0)
              ELSE IF d6 = 6 THEN Card("Entdeckung", "omen_bonus_d6", "", 0)
              ELSE Card("Entdeckung", "", "", 0)
    ELSE IF roll18 = 17
         THEN Card("Kreaturenhort", "waldkarte_pending", "hort", roll18)
    ELSE Card("NPC", "", "", 0)

WaldkarteCards ==
    {WaldkarteCard(roll18, d4, d6) :
        roll18 \in RandInt(1, 18), d4 \in RandInt(1, 4), d6 \in RandInt(1, 6)}

\* rollwaldkarte
RollWaldkarte(u) ==
    /\ Handles("rollwaldkarte", u)
    /\ \E card \in WaldkarteCards :
          IF card.result = "Skillchance"
          THEN RollChanceBody(u, "rollwaldkarte")
          ELSE IF card.key = "" THEN WaldkarteOnly(card.result)
          ELSE IF card.key = "waldkarte_pending"
               THEN WaldkarteSet(u, card.key,
                       [type |-> card.type, card_roll |-> card.card_roll],
                       card.result)
          ELSE WaldkarteSet(u, card.key, TRUE, card.result)
    /\ Deliver(u)
    /\ UNCHANGED conv
    /\ BotFrame

NoPending == [type |-> "", card_roll |-> 0]

\* rollwaldkarte_pick_level
RollWaldkartePickLevel(u) ==
    /\ Handles("rollwaldkarte_pick_level", u)
    /\ LET level == Strip(u.arg)
           pending == DictGet(user_data[u.user], "waldkarte_pending",
                              NoPending)
       IN  IF pending = NoPending
           THEN /\ reply' = [handler |-> "rollwaldkarte_pick_level",
                             resolved |-> FALSE, said |-> "no_pending"]
                /\ called' = <<>>
                /\ UNCHANGED <<user_data, fresh>>
           ELSE /\ user_data' = [user_data EXCEPT ![u.user] =
                       DictPop(@, "waldkarte_pending")]
                /\ fresh' = Touched(fresh, u.user, {}, {"waldkarte_pending"})
                /\ IF level \notin WALDKARTE_LEVELS
                   THEN /\ reply' = [handler |-> "rollwaldkarte_pick_level",
                                     resolved |-> FALSE,
                                     said |-> "invalid_level"]
                        /\ called' = <<>>
                   ELSE IF NoTables
                   THEN /\ reply' = [handler |-> "rollwaldkarte_pick_level",
                                     resolved |-> FALSE,
                                     said |-> "no_tables"]
                        /\ called' = <<>>
                   ELSE /\ \E picked \in
                               PickOutcomes(<<"W", "a", "l", "d">>, level) :
                             reply' = [handler |-> "rollwaldkarte_pick_level",
                                       resolved |-> TRUE,
                                       card_roll |-> pending.card_roll,
                                       type |-> pending.type,
                                       level |-> level, picked |-> picked]
                        /\ called' = <<"pick_encounter">>
    /\ Took(u)
    /\ UNCHANGED conv
    /\ BotFrame

----------------------------------------------------------------------------
(* The bot at work *)

\* the commands and buttons of the three conversations and of the biome the
\* encounter conversation reads, and a text
Contents ==
    {Command("rolloracle", <<>>), Command("rolloracle", <<"R", "e", "g", "e", "n", "?">>),
     Command("rollschatz", <<>>),
     Command("rollencounter", <<>>), Command("rollencounter", <<"w", "a", "l", "d">>),
     Command("setbiom", <<"W", "a", "s", "s", "e", "r">>), Command("cancel", <<>>),
     Callback("oracle_odds", <<"l", "i", "k", "e", "l", "y">>), Callback("oracle_chaos", <<"9">>),
     Callback("treasure_type", <<"h", "o", "a", "r", "d">>), Callback("treasure_cr", <<"0", "-", "4">>),
     Callback("treasure_cancel", <<>>),
     Callback("enc_confirm", <<"y", "e", "s">>), Callback("enc_confirm", <<"n", "o">>),
     Callback("enc_biom", <<"B", "e", "r", "g">>), Callback("enc_lvl", <<"1", "7", "-", "2", "0">>),
     Callback("biom_set", <<"W", "a", "s", "s", "e", "r">>),
     [kind |-> "text", name |-> "", arg |-> <<"S", "i", "e", "g", "?">>]}

\* the commands and the button of the forest card
WaldkarteContents ==
    {Command("rollwaldkarte", <<>>), Command("rollchance", <<>>),
     Callback("waldkarte_level", <<"1", "-", "4">>),
     Callback("waldkarte_level", <<"2", "1", "+">>)}

UpdatesIn(chats, contents) ==
    {[chat |-> c, user |-> usr, kind |-> x.kind, name |-> x.name,
      arg |-> x.arg] : c \in chats, usr \in Users, x \in contents}

UpdatesOf(contents) == UpdatesIn(Chats, contents)

Updates == UpdatesOf(Contents \cup WaldkarteContents)

\* no handler of main accepts an update: nothing runs, nothing is sent
Unhandled ==
    /\ {u \in Updates : Handles("none", u)} # {}
    /\ UNCHANGED botVars
    /\ BotFrame

FreshFlows == {"treasure", "encounter", "oracle", "waldkarte"}

\* the bot starts without a table file or with one
BotFiles ==
    {[exists |-> FALSE, text |-> <<>>], [exists |-> TRUE, text |-> PickText1]}

\* main has run: the tables are compiled, nobody has written yet in any of
\* the chats
Started(chats) ==
    /\ \E f \in BotFiles :
          /\ enc_file = f
          /\ ENCOUNTERS = InitEncounters(f)
    /\ cpc = "done"
    /\ lines = <<>>
    /\ lineno = 0
    /\ data = <<>>
    /\ cur_biome = <<>>
    /\ cur_level = <<>>
    /\ pending_range = <<>>
    /\ pending_text_parts = <<>>
    /\ conv = [i \in {Flows[j] : j \in 1..Len(Flows)} |->
                 [k \in chats \X Users |-> END]]
    /\ user_data = [usr \in Users |-> <<>>]
    /\ update = NoUpdate
    /\ reply = NoReply
    /\ handled = 0
    /\ called = <<>>
    /\ fresh = [f \in FreshFlows |->
                  [k \in chats \X Users |->
                      [keys |-> {}, again |-> FALSE]]]
    /\ PickIdle
    /\ RollIdle
    /\ CanonIdle
    /\ BiomIdle
    /\ InlineIdle
    /\ OracleIdle

Init == Started(Chats)

Next ==
    \/ \E u \in Updates :
        \/ RollOracleStart(u)
        \/ RollOracleQuestion(u)
        \/ RollOraclePickOdds(u)
        \/ RollOraclePickChaos(u)
        \/ RollOracleCancel(u)
        \/ RollSchatzStart(u)
        \/ RollSchatzPickType(u)
        \/ RollSchatzPickCr(u)
        \/ RollSchatzCancelCb(u)
        \/ SetBiom(u)
        \/ SetBiomPick(u)
        \/ RollEncounterStartNoTables(u)
        \/ RollEncounterStartArgs(u)
        \/ RollEncounterStartCurrent(u)
        \/ RollEncounterConfirm(u)
        \/ RollEncounterPickBiom(u)
        \/ RollEncounterPickLevel(u)
        \/ RollEncounterCancel(u)
        \/ RollChance(u)
        \/ RollWaldkarte(u)
        \/ RollWaldkartePickLevel(u)
    \/ Unhandled

Spec == Init /\ [][Next]_vars

----------------------------------------------------------------------------
(* The flows under callback data that no keyboard of the bot offers: the   *)
(* patterns of main accept any text after the colon                        *)

\* the offered values and, for every selection, one that is not offered
MalformedContents ==
    {Command("rolloracle", <<"R", "e", "g", "e", "n", "?">>),
     Callback("oracle_odds", <<"l", "i", "k", "e", "l", "y">>),
     Callback("oracle_odds", <<"x">>),
     Callback("oracle_chaos", <<"9">>), Callback("oracle_chaos", <<"x">>),
     Command("rollschatz", <<>>),
     Callback("treasure_type", <<"h", "o", "a", "r", "d">>),
     Callback("treasure_type", <<"x">>),
     Callback("treasure_cr", <<"0", "-", "4">>),
     Command("rollwaldkarte", <<>>),
     Callback("waldkarte_level", <<"1", "-", "4">>),
     Callback("waldkarte_level", <<"9", "9">>)}

MalformedUpdates == UpdatesOf(MalformedContents)

\* the bot has started with a table file
InitLoaded ==
    /\ Init
    /\ ENCOUNTERS # <<>>

NextMalformed ==
    \E u \in MalformedUpdates :
        \/ RollOracleStart(u)
        \/ RollOraclePickOdds(u)
        \/ RollOraclePickChaos(u)
        \/ RollSchatzStart(u)
        \/ RollSchatzPickType(u)
        \/ RollSchatzPickCr(u)
        \/ RollWaldkarte(u)
        \/ RollWaldkartePickLevel(u)

SpecMalformed == InitLoaded /\ [][NextMalformed]_vars

----------------------------------------------------------------------------
(* The current biome of a user under /setbiom, its buttons and /rollbiom   *)

BiomUpdates == UpdatesOf(BiomContents)

NextRollBiom ==
    \E u \in BiomUpdates :
        \/ SetBiom(u)
        \/ SetBiomPick(u)
        \/ RollBiom(u)

SpecRollBiom == Init /\ [][NextRollBiom]_vars

----------------------------------------------------------------------------
(* One user in two chats: the ConversationHandlers keep one conversation   *)
(* per chat and user, context.user_data is that of the user                *)

TwoChats == {"c1", "c2"}

ChatsContents ==
    {Command("rollencounter", <<"w", "a", "l", "d">>),
     Command("rollencounter", <<"m", "o", "o", "r">>),
     Callback("enc_lvl", <<"1", "-", "4">>),
     Command("rolloracle", <<"R", "e", "g", "e", "n", "?">>),
     Callback("oracle_odds", <<"l", "i", "k", "e", "l", "y">>),
     Callback("oracle_chaos", <<"9">>)}

ChatsUpdates == UpdatesIn(TwoChats, ChatsContents)

InitChats ==
    /\ Started(TwoChats)
    /\ ENCOUNTERS # <<>>

NextChats ==
    \E u \in ChatsUpdates :
        \/ RollEncounterStartArgs(u)
        \/ RollEncounterPickLevel(u)
        \/ RollOracleStart(u)
        \/ RollOraclePickOdds(u)
        \/ RollOraclePickChaos(u)

SpecChats == InitChats /\ [][NextChats]_vars

----------------------------------------------------------------------------
(* Properties of parse_roll_expression *)

\* the sign of term i as written in the expression
WrittenSign(i) == IF terms[i].sign = <<"-">> THEN -1 ELSE 1

\* the value of term i recorded in the trace: the sum of its draws for a
\* dice term, the integer as written for a flat term
TermValue(i) ==
    IF IsDice(terms[i].token) THEN details[i].sum ELSE ParseInt(terms[i].token)

RECURSIVE SignedSum(_)
SignedSum(n) ==
    IF n = 0 THEN 0 ELSE SignedSum(n - 1) + WrittenSign(n) * TermValue(n)

\* what holds of the total and the trace while an accepted expression is
\* evaluated and when it has returned
TotalIsSignedSum ==
    /\ rpc \in {"loop", "draw", "done"} =>
          /\ Len(details) = idx - 1
          /\ total = SignedSum(idx - 1)
          /\ \A i \in 1..Len(details) :
                details[i].kind = "dice" =>
                   /\ details[i].sum >= details[i].count
                   /\ details[i].sum <= details[i].count * details[i].sides
    /\ rpc = "draw" =>
          /\ rolls_sum >= rolls_n
          /\ rolls_sum <= rolls_n * DiceSides(terms[idx].token)
    /\ rpc = "done" => idx = Len(terms) + 1 /\ err = ""
    /\ rpc \in {"loop", "draw"} => ENABLED NextRoll

\* a step that draws a die adds a value of 1..sides to the term's sum
DrawInRange ==
    rolls_n' = rolls_n + 1 =>
       (rolls_sum' - rolls_sum) \in 1..DiceSides(terms[idx].token)

\* C1: for every accepted expression the total is the sum over the terms,
\* in order, of sign * (sum of the term's draws) or sign * value; every
\* draw of a dice term with S sides lies in 1..S; and the evaluation of an
\* expression that passed the checks can always continue: nothing raises.
C1_TotalIsSignedSum == []TotalIsSignedSum /\ [][DrawInRange]_vars

C1_Witness ==
    /\ rpc = "done"
    /\ expr = <<"2", "w", "6", "-", "1", "d", "4", "+", "5">>
    /\ details[1].sum = 7
    /\ details[2].sum = 4
    /\ total = 8

\* The accepted format, stated on the characters of the compacted
\* expression: it is not empty, every sign is followed by a digit, every
\* separator stands between two digits, and the digits before a separator
\* do not follow another separator (count sep sides, never a sep b sep c).
RunStart(c, i) ==
    CHOOSE j \in 1..i :
       /\ \A k \in j..i : c[k] \in Digits
       /\ (j = 1 \/ c[j - 1] \notin Digits)

GapFreeTerms(c) ==
    /\ Len(c) > 0
    /\ \A i \in 1..Len(c) :
          /\ c[i] \in Digits \cup DiceSep \cup SignChars
          /\ c[i] \in SignChars => i < Len(c) /\ c[i + 1] \in Digits
          /\ c[i] \in DiceSep =>
                /\ i > 1 /\ c[i - 1] \in Digits
                /\ i < Len(c) /\ c[i + 1] \in Digits
                /\ LET j == RunStart(c, i - 1)
                   IN  j = 1 \/ c[j - 1] \notin DiceSep

AllowedOnly(e) ==
    \A i \in 1..Len(e) :
       e[i] \in Digits \cup DiceSep \cup SignChars \cup Whitespace

\* the numeric bounds of the expression, read off its terms
RECURSIVE DiceUpTo(_, _)
DiceUpTo(ts, n) ==
    IF n = 0 THEN 0
    ELSE DiceUpTo(ts, n - 1)
            + (IF IsDice(ts[n].token) THEN DiceCount(ts[n].token) ELSE 0)

TermInBounds(token) ==
    IsDice(token) =>
       /\ DiceCount(token) \in 1..100
       /\ DiceSides(token) \in 2..100000

RespectsBounds(ts) ==
    /\ \A i \in 1..Len(ts) : TermInBounds(ts[i].token)
    /\ DiceUpTo(ts, Len(ts)) <= 200

FormatErrors ==
    {"Leerer Ausdruck", "Ungueltige Zeichen im Ausdruck",
     "Kein gueltiger Ausdruck gefunden", "Ungueltiges Format"}

\* C2: the expression fails with the invalid-expression error, and returns
\* no result, whenever it is empty or blank, holds a character outside
\* digits, d/D/w/W, +, - and whitespace, or its whitespace-stripped form is
\* not a gap-free concatenation of terms; conversely a gap-free
\* concatenation of terms that respects the numeric bounds never fails.
C2_InvalidExpressionRejected ==
    LET compact == RemoveWhitespace(expr)
        wellformed == AllowedOnly(expr) /\ GapFreeTerms(compact)
    IN  rpc # "call" =>
          /\ ~wellformed => rpc = "error" /\ err \in FormatErrors
          /\ wellformed => err \notin FormatErrors
          /\ wellformed /\ RespectsBounds(FindTerms(compact, 1)) => rpc # "error"
          /\ rpc = "error" => err # "" /\ normalized_expr = <<>>
          /\ rpc = "done" => err = ""

C2_Witness ==
    /\ rpc = "error"
    /\ expr = <<"1", "d", "6", "+">>
    /\ err = "Ungueltiges Format"

\* the dice drawn so far in this call
RECURSIVE DrawnInTrace(_)
DrawnInTrace(n) ==
    IF n = 0 THEN 0 ELSE DrawnInTrace(n - 1) + details[n].count

DiceDrawn == DrawnInTrace(Len(details)) + (IF rpc = "draw" THEN rolls_n ELSE 0)

\* C3: an expression with a dice term of fewer than 1 or more than 100
\* dice, or of fewer than 2 or more than 100000 sides, or with more than
\* 200 dice up to some term, is rejected, and only such a term is rejected
\* with a bounds error; every accepted expression is within the bounds; and
\* no call, accepted or rejected, draws more than 200 dice.
C3_DiceBounds ==
    /\ rpc = "done" => RespectsBounds(terms)
    /\ rpc \in {"loop", "draw", "done"} =>
          /\ \A i \in 1..(idx - 1) : TermInBounds(terms[i].token)
          /\ DiceUpTo(terms, idx - 1) <= 200
    /\ rpc = "draw" =>
          /\ TermInBounds(terms[idx].token)
          /\ DiceUpTo(terms, idx) <= 200
    /\ rpc = "error" /\ err \notin FormatErrors =>
          \/ ~TermInBounds(terms[idx].token)
          \/ DiceUpTo(terms, idx) > 200
    /\ DiceDrawn <= 200

C3_Witness ==
    /\ rpc = "error"
    /\ err = "Zu viele Wuerfel insgesamt"
    /\ idx = 3
    /\ DiceDrawn = 101
    /\ total_dice_rolled = 201

----------------------------------------------------------------------------
(* Properties of the category canonicalization *)

CanonKeys == {EncBiomRules[i].key : i \in 1..Len(EncBiomRules)}

AllAliases == UNION {EncBiomRules[i].aliases : i \in 1..Len(EncBiomRules)}

\* the aliases found in the trimmed, lower-cased text
AliasesIn(raw) == {a \in AllAliases : Contains(Lower(Strip(raw)), a)}

\* C9: the canonicalization is total and idempotent: every text maps to a
\* key, which is the trimmed original when no alias matches and a key of
\* the alias table otherwise, and canonicalizing the result again gives
\* the same key, also for a text that holds several aliases at once.
C9_CanonIdempotent ==
    /\ canon_pc \in {"once", "twice"} =>
          /\ AliasesIn(canon_raw) = {} => canon_once = Strip(canon_raw)
          /\ AliasesIn(canon_raw) # {} => canon_once \in CanonKeys
    /\ canon_pc = "twice" => canon_twice = canon_once

C9_Witness ==
    /\ canon_pc = "twice"
    /\ Cardinality(AliasesIn(canon_raw)) >= 3
    /\ canon_twice = <<"K", "ü", "s", "t", "e">>

----------------------------------------------------------------------------
(* Properties of the table compiler *)

\* what the heading lines of EncLines say: the category text and the levels
WrittenHeadings ==
    (L_WaldStufe1_4 :> [category |-> <<"W", "a", "l", "d">>, a |-> 1, b |-> 4])
    @@ (L_WaldBis :> [category |-> <<"W", "A", "L", "D">>, a |-> 11, b |-> 20])
    @@ (L_Kuestenwald :> [category |-> <<"K", "ü", "s", "t", "e", "n", "w", "a", "l", "d">>, a |-> 17, b |-> 20])
    @@ (L_Moor :> [category |-> <<"M", "o", "o", "r">>, a |-> 2, b |-> 3])

\* what the range lines of EncLines of the form SS-EE <text> say: the two
\* bounds in ascending order and the text
WrittenRanges ==
    (L_Wolf :> <<5, 12, <<"E", "i", "n", " ", "W", "o", "l", "f", " ", "t", "a", "u", "c", "h", "t", " ", "a", "u", "f">>>>)
    @@ (L_Baer :> <<10, 20, <<"B", "ä", "r">>>>)
    @@ (L_Inverted :> <<41, 50, <<"O", "g", "e", "r">>>>)
    @@ (L_RangeMarker :> <<5, 12, <<"W", "1", "0", "0", "-", "B", "e", "g", "e", "g", "n", "u", "n", "g">>>>)

\* the table with the single entry e under category and tier
SingleEntryTable(category, tier, e) == category :> (tier :> <<e>>)

\* C4: compiling a heading line followed by a range line SS-EE <text>
\* yields the table that has, under the canonicalized category and the
\* canonicalized tier, exactly one entry with the bounds of the range line
\* (read in ascending order) and its text as payload.
C4_HeadingThenRange ==
    \A h \in DOMAIN WrittenHeadings : \A r \in DOMAIN WrittenRanges :
        (cpc = "done" /\ enc_file.exists /\ enc_file.text = <<h, r>>)
            => ENCOUNTERS =
                 SingleEntryTable(
                    CanonicalEncBiom(WrittenHeadings[h].category),
                    CanonicalLevel(WrittenHeadings[h].a, WrittenHeadings[h].b),
                    WrittenRanges[r])

\* the instance of C4 the specification gives holds of the compiler
C4_WolfExample ==
    (cpc = "done" /\ enc_file.exists
          /\ enc_file.text = <<L_WaldStufe1_4, L_Wolf>>)
        => ENCOUNTERS = SingleEntryTable(<<"W", "a", "l", "d">>, <<"1", "-", "4">>, <<5, 12, <<"E", "i", "n", " ", "W", "o", "l", "f", " ", "t", "a", "u", "c", "h", "t", " ", "a", "u", "f">>>>)

\* the line the loop is at
CurLine == lines[lineno]

\* the line the loop is at is no heading, no range line under a heading and
\* no continuation of a pending entry
AtOtherLine ==
    /\ cpc = "lines"
    /\ lineno <= Len(lines)
    /\ ~HeadingMatch(CurLine).ok
    /\ ~(RangeMatch(CurLine).ok /\ cur_biome # <<>> /\ cur_level # <<>>)
    /\ pending_range = <<>>

NoTextToCompile ==
    ~enc_file.exists \/ IsBlankText(enc_file.text)

\* C5: the compiler never raises, a line that is neither a heading, a range
\* line nor a continuation of a pending entry is passed over with the table
\* and the pending entry unchanged, and an empty, blank or missing source
\* yields the empty table.
C5_CompilerNeverFails ==
    /\ [](cpc # "raised")
    /\ [][AtOtherLine => /\ lineno' = lineno + 1
                         /\ UNCHANGED <<data, cur_biome, cur_level,
                                        pending_range, pending_text_parts,
                                        ENCOUNTERS>>]_vars
    /\ []((cpc = "done" /\ NoTextToCompile) => ENCOUNTERS = <<>>)

\* a text was compiled whose first line was dropped and whose other lines
\* made an entry
C5_Witness ==
    /\ cpc = "done"
    /\ enc_file.exists
    /\ Len(enc_file.text) = 3
    /\ enc_file.text[1] = L_Cont
    /\ ENCOUNTERS # <<>>

----------------------------------------------------------------------------
(* Properties of pick_encounter *)

\* the call of pick_encounter has got past the lookup of the table
PickResolved == ppc \in {"draw", "returned", "raised"}

\* the tables the category given has, after canonicalization
GivenTiers == TablesForBiom(ENCOUNTERS, CanonicalEncBiom(pick_biom))

\* the entries of a table that hold the roll r
Holding(table, r) ==
    {i \in 1..Len(table) : table[i][1] <= r /\ r <= table[i][2]}

\* the payload of the first entry in table order that holds r, the gap
\* sentinel when none does
FirstMatchText(table, r) ==
    IF Holding(table, r) = {} THEN GapText
    ELSE table[CHOOSE i \in Holding(table, r) :
                  \A j \in Holding(table, r) : i <= j][3]

\* the call returned the roll, in 1..100, with the first match in table
ReturnedFirstMatch(table) ==
    /\ ppc # "raised"
    /\ ppc = "returned" =>
          /\ pick_result.kind = "ok"
          /\ pick_result.roll = pick_roll
          /\ pick_roll \in 1..100
          /\ pick_result.txt = FirstMatchText(table, pick_roll)

\* the category given has the letters of cat, in any case
SameLetters(given, cat) == Lower(Strip(given)) = Lower(cat)

\* C6 as stated: whenever the category given is, up to the case of its
\* letters, a category with a table at the level given, pick_encounter
\* returns the roll, in 1..100, and the payload of the first entry in table
\* order that holds it, or the gap sentinel when none does.
C6_FirstMatchAnyCase ==
    \A cat \in DOMAIN ENCOUNTERS :
        (/\ PickResolved
         /\ SameLetters(pick_biom, cat)
         /\ pick_level \in DOMAIN ENCOUNTERS[cat])
            => ReturnedFirstMatch(ENCOUNTERS[cat][pick_level])

\* C6, amended: the same whenever the category given canonicalizes to a
\* category with a table at the level given, which it does in any letter
\* case when it holds an alias.
C6_FirstMatch ==
    \A cat \in DOMAIN ENCOUNTERS :
        (/\ PickResolved
         /\ pick_level \in DOMAIN ENCOUNTERS[cat]
         /\ \/ CanonicalEncBiom(pick_biom) = cat
            \/ /\ SameLetters(pick_biom, cat)
               /\ AliasesIn(Lower(pick_biom)) # {})
            => ReturnedFirstMatch(ENCOUNTERS[cat][pick_level])

\* "wald" found the table of "Wald" and the roll 11, which two entries
\* hold, gave the first
C6_Witness ==
    /\ ppc = "returned"
    /\ pick_biom = <<"w", "a", "l", "d">>
    /\ pick_level = <<"1", "-", "4">>
    /\ pick_roll = 11
    /\ Cardinality(Holding(ENCOUNTERS[<<"W", "a", "l", "d">>][<<"1", "-", "4">>], 11)) = 2
    /\ pick_result.txt = <<"E", "i", "n", " ", "W", "o", "l", "f", " ", "t", "a", "u", "c", "h", "t", " ", "a", "u", "f">>

\* there is nothing to roll on: no table at the level given and none the
\* levels 11-20 stand in for
NoTableFor(tiers, level) ==
    /\ level \notin DOMAIN tiers
    /\ ~(level \in {<<"1", "1", "-", "1", "6">>, <<"1", "7", "-", "2", "0">>} /\ <<"1", "1", "-", "2", "0">> \in DOMAIN tiers)

RECURSIVE TotalLen(_)
TotalLen(keys) ==
    IF keys = {} THEN 0
    ELSE LET k == CHOOSE k \in keys : TRUE
         IN  Len(k) + TotalLen(keys \ {k})

\* the text lists the keys, and nothing else, separated by ", "
ListsKeys(text, keys) ==
    /\ \A k \in keys : Contains(text, k)
    /\ Len(text) = TotalLen(keys) + 2 * (Cardinality(keys) - 1)

\* the message names the category and level and then lists the keys
MessageLists(msg, biom, level, keys) ==
    LET head == Concat(<<<<"K", "e", "i", "n", "e", " ", "T", "a", "b", "e", "l", "l", "e", " ", "f", "ü", "r", " ">>, biom, <<" ">>, level,
                         <<".", " ", "V", "e", "r", "f", "ü", "g", "b", "a", "r", ":", " ">>>>)
        rest == SubSeq(msg, Len(head) + 1, Len(msg))
    IN  /\ StartsWith(msg, head)
        /\ IF keys = {} THEN rest = <<"k", "e", "i", "n", "e">> ELSE ListsKeys(rest, keys)

\* C7: pick_encounter raises KeyError exactly when the canonicalized
\* category has no table at the level given and none that stands in; the
\* message lists every level the category has a table for, or says there is
\* none; no roll is drawn and the table is left as it is.
C7_NoTableError ==
    /\ [](PickResolved =>
             (ppc = "raised" <=> NoTableFor(GivenTiers, pick_level)))
    /\ [](ppc = "raised" =>
             /\ pick_result.kind = "KeyError"
             /\ MessageLists(pick_result.txt, CanonicalEncBiom(pick_biom),
                              pick_level, DOMAIN GivenTiers)
             /\ pick_roll = 0)
    /\ [][ENCOUNTERS' = ENCOUNTERS]_vars

\* "WALD" at the level 5-10 was refused with the two levels Wald has
C7_Witness ==
    /\ ppc = "raised"
    /\ pick_biom = <<"W", "A", "L", "D">>
    /\ pick_level = <<"5", "-", "1", "0">>
    /\ DOMAIN GivenTiers = {<<"1", "-", "4">>, <<"1", "1", "-", "2", "0">>}
    /\ pick_result.txt =
          <<"K", "e", "i", "n", "e", " ", "T", "a", "b", "e", "l", "l", "e", " ", "f", "ü", "r", " ", "W", "a", "l", "d", " ", "5", "-", "1", "0", ".", " ", "V", "e", "r", "f", "ü", "g", "b", "a", "r", ":", " ", "1", "-", "4", ",", " ", "1", "1", "-", "2", "0">>

\* C8: a category without a table at the level 11-16 or 17-20 given but
\* with one for 11-20 is resolved on the table for 11-20; a table at the
\* level given is always the one used; at any other level a missing table
\* is an error whether or not there is one for 11-20.
C8_SuperBandFallback ==
    /\ (/\ PickResolved
        /\ pick_level \in {<<"1", "1", "-", "1", "6">>, <<"1", "7", "-", "2", "0">>}
        /\ pick_level \notin DOMAIN GivenTiers
        /\ <<"1", "1", "-", "2", "0">> \in DOMAIN GivenTiers)
           => ReturnedFirstMatch(GivenTiers[<<"1", "1", "-", "2", "0">>])
    /\ (PickResolved /\ pick_level \in DOMAIN GivenTiers)
           => ReturnedFirstMatch(GivenTiers[pick_level])
    /\ (/\ PickResolved
        /\ pick_level \notin {<<"1", "1", "-", "1", "6">>, <<"1", "7", "-", "2", "0">>}
        /\ pick_level \notin DOMAIN GivenTiers)
           => ppc = "raised"

\* Wald has no table for 17-20, and the roll 100 gave the entry of 11-20
C8_Witness ==
    /\ ppc = "returned"
    /\ pick_biom = <<"W", "a", "l", "d">>
    /\ pick_level = <<"1", "7", "-", "2", "0">>
    /\ DOMAIN GivenTiers = {<<"1", "-", "4">>, <<"1", "1", "-", "2", "0">>}
    /\ pick_roll = 100
    /\ pick_result.txt = <<"D", "r", "a", "c", "h", "e">>

----------------------------------------------------------------------------
(* Properties of the multi-step flows *)

ConvFlows == {Flows[i] : i \in 1..Len(Flows)}

\* u is the command that enters flow f
EntryUpdate(f, u) == u.kind = "command" /\ u.name = EntryCommand[f]

\* the first state in which flow f collects, entered with u: /rolloracle
\* with the question asks for the odds, /rollencounter with the biome asks
\* for the level
FirstCollecting(f, u) ==
    IF f = "oracle"
    THEN IF u.arg # <<>> THEN "ORACLE_ODDS" ELSE "ORACLE_QUESTION"
    ELSE IF f = "treasure" THEN "TREASURE_PICK_TYPE"
    ELSE IF u.arg # <<>> THEN "ENC_PICK_LEVEL" ELSE "ENC_CONFIRM"

\* /rollencounter names no biome and none is set: the bot asks for /setbiom
\* and the flow is not entered
NothingToEnter(f, u) ==
    /\ f = "encounter"
    /\ u.arg = <<>>
    /\ DictGet(user_data[u.user], "current_biom", <<>>) = <<>>

\* this step a handler takes the command that enters flow f while an earlier
\* attempt of the conversation is in an intermediate state
Reenters(f) ==
    /\ handled' = handled + 1
    /\ EntryUpdate(f, update')
    /\ Intermediate(f, update')

\* this step /rollwaldkarte draws a card with a selection while an earlier
\* selection is pending
ReentersWaldkarte ==
    /\ handled' = handled + 1
    /\ reply'.handler = "rollwaldkarte"
    /\ reply'.result \in {"Encounter", "Kreaturenhort"}
    /\ Intermediate("waldkarte", update')

\* the pending selection after the step is that of the card drawn in it
PendingIsOfCard ==
    /\ "waldkarte_pending" \in DOMAIN user_data'[update'.user]
    /\ user_data'[update'.user]["waldkarte_pending"].type =
          (IF reply'.result = "Encounter" THEN "encounter" ELSE "hort")
    /\ fresh'["waldkarte"][KeyOf(update')].keys = {"waldkarte_pending"}

ResolvingHandler ==
    [treasure |-> "rollschatz_pick_cr",
     encounter |-> "rollencounter_pick_level",
     oracle |-> "rolloracle_pick_chaos",
     waldkarte |-> "rollwaldkarte_pick_level"]

\* the reply r is that of a resolution of flow f
IsResolution(f, r) ==
    /\ r.handler = ResolvingHandler[f]
    /\ f = "oracle" => r.raised = ""
    /\ f = "waldkarte" => r.resolved

\* this step flow f resolves
Resolves(f) ==
    /\ handled' = handled + 1
    /\ IsResolution(f, reply')

\* C10: entering a flow (/rolloracle, /rollschatz, /rollencounter, a new
\* pending selection of /rollwaldkarte) while an earlier attempt of it is in
\* an intermediate state restarts it from its first collecting state: the
\* entry command is taken by the entry handler in every intermediate state,
\* the entry handler leaves the conversation in the first collecting state
\* (a /rollencounter that has no biome to start from enters nothing and ends
\* the earlier attempt), the pending selection is that of the new card; and a
\* resolution reads only keys written since the latest entry
C10_ReentryRestarts ==
    /\ [](\A f \in ConvFlows : \A u \in Updates :
             (EntryUpdate(f, u) /\ Intermediate(f, u))
                => Handles(EntryHandler[f], u))
    /\ [][\A f \in ConvFlows :
             Reenters(f) => conv'[f][KeyOf(update')]
                               = (IF NothingToEnter(f, update') THEN END
                                  ELSE FirstCollecting(f, update'))]_vars
    /\ [][ReentersWaldkarte => PendingIsOfCard]_vars
    /\ [][\A f \in FreshFlows :
             Resolves(f) => ResolutionReads[f]
                              \subseteq fresh[f][KeyOf(update')].keys]_vars

\* an oracle was asked again while the first attempt waited for an answer,
\* and the second attempt has resolved
C10_Witness ==
    /\ IsResolution("oracle", reply)
    /\ fresh["oracle"][KeyOf(update)].again
    /\ conv["oracle"][KeyOf(update)] = END

\* the keys of context.user_data under which the handlers of a flow store
\* what they collect
CollectedKeys ==
    [treasure |-> {"treasure_type", "treasure_cr"},
     encounter |-> {"enc_biome"},
     oracle |-> {"oracle_question", "oracle_odds", "oracle_chaos"}]

\* this step the cancel handler of flow f takes an update
Cancels(f) ==
    /\ handled' = handled + 1
    /\ reply'.handler = CancelHandler[f]

\* C11: a cancel input taken by a flow ends it without calling a resolver
\* and discards what the flow has collected: none of its collected
\* parameters remains stored for the user
C11_CancelDiscards ==
    [][\A f \in ConvFlows :
          Cancels(f) =>
             /\ conv'[f][KeyOf(update')] = END
             /\ called' = <<>>
             /\ CollectedKeys[f] \cap DOMAIN user_data'[update'.user] = {}]_vars

\* the resolvers of each flow
Resolvers ==
    [treasure |-> {"generate_hoard_treasure", "generate_single_treasure"},
     encounter |-> {"pick_encounter"},
     oracle |-> {"oracle_outcome"},
     waldkarte |-> {"pick_encounter"}]

\* this step the handler of the last selection of flow f takes a value: the
\* chaos rank is a number, the level of the forest card is one of its levels
\* and a selection is pending
TerminalStep(f) ==
    /\ handled' = handled + 1
    /\ reply'.handler = ResolvingHandler[f]
    /\ f = "oracle" => reply'.raised # "ValueError"
    /\ f = "waldkarte" =>
          /\ Intermediate(f, update')
          /\ Strip(update'.arg) \in WALDKARTE_LEVELS

\* flow f is collecting in the conversation of the update handled last
Collecting(f) == Intermediate(f, update)

\* C12: the step that takes the last selection of a flow calls the resolver
\* of the flow exactly once and ends the flow; the handler of the last
\* selection calls a resolver only in a flow that is collecting, so that
\* after the end no selection resolves again until the flow is entered anew
C12_ResolvesOnce ==
    /\ [][\A f \in FreshFlows :
             TerminalStep(f) =>
                /\ Len(called') = 1
                /\ called'[1] \in Resolvers[f]
                /\ ~Collecting(f)']_vars
    /\ [][\A f \in FreshFlows :
             (/\ handled' = handled + 1
              /\ reply'.handler = ResolvingHandler[f]
              /\ called' # <<>>)
                => Intermediate(f, update')]_vars

\* build_treasure_type_keyboard: the treasure types offered
TreasureTypes == {<<"s", "i", "n", "g", "l", "e">>, <<"h", "o", "a", "r", "d">>}

\* the update is a selection whose value the keyboard of its state does not
\* offer
NotOffered(u) ==
    \/ u.name = "oracle_odds" /\ ~KnownOdds(u.arg)
    \/ u.name = "treasure_type" /\ u.arg \notin TreasureTypes
    \/ u.name = "waldkarte_level" /\ Strip(u.arg) \notin WALDKARTE_LEVELS

\* C13: a selection whose value is not valid for the state it is made in is
\* rejected: the conversations stay where they are, nothing is stored or
\* dropped (a pending selection of the forest card remains), no resolver is
\* called
C13_RejectsInvalid ==
    [][(handled' = handled + 1 /\ NotOffered(update')) =>
          /\ conv' = conv
          /\ user_data' = user_data
          /\ called' = <<>>]_vars

\* the next-reward flag of the user of the update handled last
BonusFlag == "next_reward_bonus_d10x10" \in DOMAIN user_data[update.user]
                /\ user_data[update.user]["next_reward_bonus_d10x10"]

\* the flag of the user whose update this step handles, before the step
BonusFlagBefore ==
    /\ "next_reward_bonus_d10x10" \in DOMAIN user_data[update'.user]
    /\ user_data[update'.user]["next_reward_bonus_d10x10"]

\* this step /rollchance resolves, as the command or as the skill-chance
\* card of /rollwaldkarte
ChanceResolves ==
    /\ handled' = handled + 1
    /\ reply'.handler \in {"rollchance", "rollwaldkarte"}
    /\ reply'.result = "Skillchance"

\* this step /rollwaldkarte draws the discovery that promises the bonus
DiscoverySets ==
    /\ handled' = handled + 1
    /\ reply'.handler = "rollwaldkarte"
    /\ reply'.result = "Entdeckung"
    /\ reply'.noted = "next_reward_bonus_d10x10"

\* C14: the next-reward flag is used up when it is read: a /rollchance
\* resolution that finds it set adds one bonus of 10*k GM, k in 1..10, and
\* clears it in the same step; one that finds it unset adds nothing and
\* leaves it unset; the discovery sets it, also when it is set already, and
\* no other step changes it
C14_BonusConsumedOnRead ==
    /\ [][(ChanceResolves /\ BonusFlagBefore) =>
             /\ reply'.bonus \in {10 * k : k \in 1..10}
             /\ ~BonusFlag']_vars
    /\ [][(ChanceResolves /\ ~BonusFlagBefore) =>
             /\ reply'.bonus = 0
             /\ ~BonusFlag']_vars
    /\ [][DiscoverySets => BonusFlag']_vars
    /\ [][(handled' = handled + 1 /\ ~ChanceResolves /\ ~DiscoverySets) =>
             (BonusFlag' <=> BonusFlagBefore)]_vars

\* the flag was set and the resolution handled last has used it up and
\* added a bonus
C14_Witness ==
    /\ reply.handler \in {"rollchance", "rollwaldkarte"}
    /\ reply.result = "Skillchance"
    /\ reply.bonus > 0
    /\ "next_reward_bonus_d10x10" \in DOMAIN user_data[update.user]
    /\ ~BonusFlag

\* the value stored for the user of conversation k under a key, <<>> when
\* there is none
StoredFor(ud, k, key) == DictGet(ud[k[2]], key, <<>>)

\* C15: conversations are independent: while a conversation is collecting
\* in a flow, a step of another conversation does not change a parameter
\* the flow has collected, so that a resolution reads only what the steps
\* of its own conversation have stored
C15_ConversationsIndependent ==
    [][\A f \in ConvFlows : \A k \in DOMAIN conv[f] :
          (/\ handled' = handled + 1
           /\ KeyOf(update') # k
           /\ conv[f][k] # END)
             => \A key \in CollectedKeys[f] :
                   StoredFor(user_data', k, key) = StoredFor(user_data, k, key)]_vars

\* the flows that are collecting in conversation k
ActiveFlows(k) == {f \in ConvFlows : conv[f][k] # END}

\* C16: in every conversation at most one of the treasure, encounter and
\* oracle flows is in a non-terminal state
C16_OneActiveFlow ==
    \A k \in ConvKeys : Cardinality(ActiveFlows(k)) <= 1

----------------------------------------------------------------------------
(* Properties of the biome transition *)

Biomes == {ALL_BIOMES[i] : i \in 1..Len(ALL_BIOMES)}

\* the biomes with a fixed weight, and the weight
FixedBiomes ==
    {<<"W", "a", "s", "s", "e", "r">>,
     <<"U", "n", "t", "e", "r", "r", "e", "i", "c", "h">>, StadtDorf}

FixedWeight(b) == IF b = StadtDorf THEN 10 ELSE 5

\* the weights of roll_biom have been computed
Weighed == bpc \in {"weighed", "done"}

\* the sum of the fixed weights of the biomes other than the current one
FixedMass ==
    (IF current_biom = StadtDorf THEN 0 ELSE 10)
       + (IF current_biom = <<"W", "a", "s", "s", "e", "r">> THEN 0 ELSE 5)
       + (IF current_biom = <<"U", "n", "t", "e", "r", "r", "e", "i", "c", "h">>
          THEN 0 ELSE 5)

\* the biomes that are neither the current one nor fixed
FreeBiomes == (Biomes \ FixedBiomes) \ {current_biom}

\* C17: for every known current biome the candidates of roll_biom are the
\* 11 biomes, each exactly once; the current one weighs 66, a fixed one
\* other than the current its fixed weight (Wasser 5, Unterreich 5,
\* Stadt/Dorf 10), and the others share 100 - 66 - (the fixed weights other
\* than the current) equally; the weights sum to exactly 100 and the current
\* biome is drawn with probability 66/100
C17_TransitionWeights ==
    Weighed =>
       /\ Len(choices) = 11
       /\ Len(weights) = Len(choices)
       /\ \A b \in Biomes : Cardinality({i \in 1..Len(choices) :
                                            choices[i] = b}) = 1
       /\ \A i \in 1..Len(choices) :
             IF choices[i] = current_biom
             THEN weights[i] = 66 * WeightDenominator
             ELSE IF choices[i] \in FixedBiomes
             THEN weights[i] = FixedWeight(choices[i]) * WeightDenominator
             ELSE weights[i] * Cardinality(FreeBiomes)
                     = (100 - 66 - FixedMass) * WeightDenominator
       /\ Accumulated(weights, Len(weights)) = 100 * WeightDenominator
       /\ 100 * Cardinality({t \in Tickets(weights) :
                    RandomChoice(choices, weights, t) = current_biom})
             = 66 * Cardinality(Tickets(weights))

\* roll_biom has drawn for the current biome Wasser, a fixed one: its own
\* fixed weight is not among the candidates' weights a second time
C17_Witness ==
    /\ bpc = "done"
    /\ current_biom = <<"W", "a", "s", "s", "e", "r">>
    /\ rolled = <<"B", "e", "r", "g">>

\* the current biome stored for the user of an update, <<>> when none is
StoredBiom(ud, u) == DictGet(ud[u.user], "current_biom", <<>>)

\* this step /rollbiom has called roll_biom and reports what it returned
RollBiomRolls ==
    /\ handled' = handled + 1
    /\ reply'.handler = "rollbiom"
    /\ reply'.said = "rolled"

\* C18: when roll_biom returns Stadt/Dorf, /rollbiom only reports it: the
\* stored current biome stays the one the roll started from, and a /rollbiom
\* without argument changes nothing of the user's data; for every other
\* biome returned the stored current biome becomes the one returned
C18_StadtDorfKeepsCurrent ==
    [][RollBiomRolls =>
          IF reply'.rolled = StadtDorf
          THEN /\ StoredBiom(user_data', update') = reply'.current
               /\ update'.arg = <<>> => user_data' = user_data
          ELSE StoredBiom(user_data', update') = reply'.rolled]_vars

\* /rollbiom without argument has rolled Stadt/Dorf on the stored biome
C18_Witness ==
    /\ reply.handler = "rollbiom"
    /\ reply.said = "rolled"
    /\ reply.rolled = StadtDorf
    /\ update.arg = <<>>
    /\ StoredBiom(user_data, update) = <<"B", "e", "r", "g">>

----------------------------------------------------------------------------
(* Properties of the compiled table under the handlers *)

\* C19: init_encounters installs the whole table built from the file, and
\* from then on no handler and no sequence of inputs modifies ENCOUNTERS:
\* every step of the bot, a resolution that finds an entry and one that
\* fails alike, leaves the table as it is
C19_TableReadOnly ==
    /\ ENCOUNTERS = InitEncounters(enc_file)
    /\ [][ENCOUNTERS' = ENCOUNTERS]_vars

\* a resolution from the loaded table has failed: no table for the biome
C19_Witness ==
    /\ ENCOUNTERS # <<>>
    /\ reply.handler = "rollencounter_pick_level"
    /\ called = <<"pick_encounter">>
    /\ reply.picked.kind = "KeyError"

\* this step the handler of the level buttons of the forest card takes one
\* of its levels while a selection is pending
WaldkarteLevelPicked ==
    /\ handled' = handled + 1
    /\ reply'.handler = "rollwaldkarte_pick_level"
    /\ "waldkarte_pending" \in DOMAIN user_data[update'.user]
    /\ Strip(update'.arg) \in WALDKARTE_LEVELS

\* C20: while the table is empty no flow calls pick_encounter:
\* /rollencounter ends at once, saying that no tables are loaded, and
\* collects nothing; a level selection of the forest card drops the
\* pending record and says that no tables are loaded, it neither resolves
\* nor raises
C20_EmptyTableNeverPicked ==
    /\ [](ENCOUNTERS = <<>> =>
             \A i \in 1..Len(called) : called[i] # "pick_encounter")
    /\ [][(/\ ENCOUNTERS = <<>>
           /\ handled' = handled + 1
           /\ reply'.handler = "rollencounter_start")
             => /\ reply'.said = "no_tables"
                /\ conv'["encounter"][KeyOf(update')] = END
                /\ user_data' = user_data]_vars
    /\ [][(ENCOUNTERS = <<>> /\ WaldkarteLevelPicked)
             => /\ reply'.said = "no_tables"
                /\ ~reply'.resolved
                /\ "waldkarte_pending" \notin DOMAIN user_data'[update'.user]]_vars

\* without tables, a card of the forest was drawn, a level was selected
\* and the selection is gone
C20_Witness ==
    /\ ENCOUNTERS = <<>>
    /\ reply.handler = "rollwaldkarte_pick_level"
    /\ reply.said = "no_tables"
    /\ "waldkarte_pending" \notin DOMAIN user_data[update.user]

----------------------------------------------------------------------------
(* Properties of the compiled entries *)

\* the entries of every tier of every category of a table
EntriesOf(table) ==
    UNION {UNION {{table[c][t][i] : i \in 1..Len(table[c][t])}
                     : t \in DOMAIN table[c]} : c \in DOMAIN table}

\* the loop is at the line ln and takes it as a range line
AtRangeLine(ln) ==
    /\ cpc = "lines"
    /\ lineno <= Len(lines)
    /\ lines[lineno] = CleanEncLine(ln)
    /\ cur_biome # <<>>
    /\ cur_level # <<>>

Overlap(e1, e2) == ~(e1[2] < e2[1] \/ e2[2] < e1[1])

\* C22: within one tier of one category of the installed table no two
\* entries have overlapping ranges: of any two entries at different
\* places of the tier, one ends before the other starts.
C22_NoOverlap ==
    \A c \in DOMAIN ENCOUNTERS : \A t \in DOMAIN ENCOUNTERS[c] :
        \A i, j \in 1..Len(ENCOUNTERS[c][t]) :
            i # j => ~Overlap(ENCOUNTERS[c][t][i], ENCOUNTERS[c][t][j])

----------------------------------------------------------------------------
(* ENCOUNTER SYSTEM: roll_inline_w_dice *)

\* str(n) and f"{n:+d}" for an int of either sign
StrInt(n) == IF n < 0 THEN <<"-">> \o IntToStr(0 - n) ELSE IntToStr(n)

SignedStr(n) == IF n < 0 THEN <<"-">> \o IntToStr(0 - n) ELSE <<"+">> \o IntToStr(n)

\* s.replace(" ", "")
RemoveSpaces(s) == SelectSeq(s, LAMBDA c : c # " ")

\* int(token) for a token int accepts
SignedInt(token) ==
    LET t == Strip(token)
    IN  IF Len(t) > 0 /\ t[1] = "-" THEN 0 - ParseInt(Tail(t))
        ELSE IF Len(t) > 0 /\ t[1] = "+" THEN ParseInt(Tail(t))
        ELSE ParseInt(t)

\* sum(rolls)
RECURSIVE SumRolls(_)
SumRolls(rolls) ==
    IF Len(rolls) = 0 THEN 0 ELSE rolls[1] + SumRolls(Tail(rolls))

\* _W_DICE_EXPR = (\d+)\s*[Ww]\s*(\d+)(\s*[+-]\s*\d+)? tried at position p.
\* Each \d+ is greedy and takes its whole run of digits: with fewer digits
\* the next character is a digit, which nothing after a \d+ accepts.  The
\* modifier group is taken whenever it matches.
WDiceAt(s, p) ==
    LET n  == DigitRun(s, p)
        q1 == SkipWs(s, p + n)
        q2 == SkipWs(s, q1 + 1)
        m  == DigitRun(s, q2)
        q3 == SkipWs(s, q2 + m)
        q4 == SkipWs(s, q3 + 1)
        k  == DigitRun(s, q4)
        hasMod == q3 <= Len(s) /\ s[q3] \in SignChars /\ k > 0
    IN  IF n > 0 /\ q1 <= Len(s) /\ s[q1] \in {"W", "w"} /\ m > 0
        THEN [ok |-> TRUE,
              count |-> SubSeq(s, p, p + n - 1),
              sides |-> SubSeq(s, q2, q2 + m - 1),
              mod_raw |-> IF hasMod THEN SubSeq(s, q2 + m, q4 + k - 1) ELSE <<>>,
              end |-> IF hasMod THEN q4 + k ELSE q2 + m]
        ELSE [ok |-> FALSE]

\* where the search of re.sub finds the next match at or after p:
\* Len(s) + 1 when there is none
RECURSIVE WDiceSearch(_, _)
WDiceSearch(s, p) ==
    IF p > Len(s) THEN p
    ELSE IF WDiceAt(s, p).ok THEN p
    ELSE WDiceSearch(s, p + 1)

\* line 707: int(mod_raw.replace(" ", "")), 0 without a modifier
ModRaises(m) == m.mod_raw # <<>> /\ ~IntAccepts(RemoveSpaces(m.mod_raw))

ModOf(m) == IF m.mod_raw = <<>> THEN 0 ELSE SignedInt(RemoveSpaces(m.mod_raw))

\* line 709: random.randint(1, sides) raises ValueError on an empty range
DrawRaises(m) == ParseInt(m.count) > 0 /\ ParseInt(m.sides) < 1

\* line 709: the rolls the draws can give
RollsOf(m) == [1..ParseInt(m.count) -> RandInt(1, ParseInt(m.sides))]

\* lines 712-713: the trace line of a replacement
TraceLine(m, rolls) ==
    LET mod == ModOf(m)
    IN  IntToStr(ParseInt(m.count)) \o <<"W">> \o IntToStr(ParseInt(m.sides))
           \o (IF mod # 0 THEN SignedStr(mod) ELSE <<>>)
           \o <<" ", "=", " ">> \o StrInt(SumRolls(rolls) + mod)
           \o <<" ", "(", "W", "ü", "r", "f", "e", ":", " ">>
           \o JoinComma([i \in 1..Len(rolls) |-> IntToStr(rolls[i])])
           \o <<")">>

\* line 699: details = [], and re.sub starts at the first character
InlineBegin ==
    /\ wpc = "call"
    /\ wpc' = "scan"
    /\ w_pos' = 1
    /\ rolled_text' = <<>>
    /\ w_details' = <<>>
    /\ UNCHANGED w_text
    /\ InlineFrame

\* re.sub has found the next match
AtMatch ==
    /\ wpc = "scan"
    /\ WDiceSearch(w_text, w_pos) <= Len(w_text)

NextMatch == WDiceAt(w_text, WDiceSearch(w_text, w_pos))

\* lines 701-714: repl is called on the match; the text before the match
\* and the total go to the result, the trace line to details, and the
\* search goes on behind the match
InlineRepl ==
    /\ AtMatch
    /\ ~ModRaises(NextMatch)
    /\ ~DrawRaises(NextMatch)
    /\ \E rolls \in RollsOf(NextMatch) :
          /\ rolled_text' = rolled_text
                \o SubSeq(w_text, w_pos, WDiceSearch(w_text, w_pos) - 1)
                \o StrInt(SumRolls(rolls) + ModOf(NextMatch))
          /\ w_details' = Append(w_details, TraceLine(NextMatch, rolls))
    /\ w_pos' = NextMatch.end
    /\ UNCHANGED <<w_text, wpc>>
    /\ InlineFrame

\* lines 707 and 709: a conversion or a draw of repl raises ValueError,
\* which leaves re.sub and roll_inline_w_dice
InlineReplRaises ==
    /\ AtMatch
    /\ ModRaises(NextMatch) \/ DrawRaises(NextMatch)
    /\ wpc' = "raised"
    /\ UNCHANGED <<w_text, w_pos, rolled_text, w_details>>
    /\ InlineFrame

\* lines 716-717: no further match; the rest of the text is copied
InlineReturn ==
    /\ wpc = "scan"
    /\ WDiceSearch(w_text, w_pos) > Len(w_text)
    /\ rolled_text' = rolled_text \o SubSeq(w_text, w_pos, Len(w_text))
    /\ wpc' = "done"
    /\ UNCHANGED <<w_text, w_pos, w_details>>
    /\ InlineFrame

\* The payloads roll_inline_w_dice is applied to: written cases, and
\* "<count>W<sides> Orks" for every count and sides within the bounds.
MaxInlineCount == 2
MaxInlineSides == 3

P_Wolf == <<"E", "i", "n", " ", "W", "o", "l", "f", " ", "t", "a", "u", "c", "h", "t", " ", "a", "u", "f">>
P_Orks == <<"1", "W", "4", " ", "O", "r", "k", "s">>
P_Mod == <<"2", "W", "3", "+", "1", " ", "G", "o", "b", "l", "i", "n", "s">>
P_Two == <<"2", "w", "3", " ", "-", " ", "1", " ", "u", "n", "d", " ", "1", "W", "2">>
P_Chain == <<"1", "W", "4", "W", "2">>
P_Sum == <<"1", "W", "3", "+", "2", "W", "2">>
P_Spaced == <<"1", " ", "W", " ", "3">>
P_NoSides == <<"1", "2", "W">>
P_Tab == <<"1", "W", "3", "+", "\t", "2">>
P_HalfMod == <<"1", "W", "3", "+", " ", "x">>

InlineWritten == {P_Wolf, P_Orks, P_Mod, P_Two, P_Chain, P_Sum, P_Spaced, P_NoSides, P_Tab, P_HalfMod}

InlineInputs ==
    InlineWritten
       \cup {IntToStr(c) \o <<"W">> \o IntToStr(s) \o <<" ", "O", "r", "k", "s">> :
                c \in 0..MaxInlineCount, s \in 0..MaxInlineSides}

InitInline ==
    /\ w_text \in InlineInputs
    /\ wpc = "call"
    /\ w_pos = 0
    /\ rolled_text = <<>>
    /\ w_details = <<>>
    /\ RollIdle
    /\ CanonIdle
    /\ LoadIdle
    /\ ENCOUNTERS = <<>>
    /\ PickIdle
    /\ BotIdle
    /\ BiomIdle
    /\ OracleIdle

NextInline ==
    \/ InlineBegin
    \/ InlineRepl
    \/ InlineReplRaises
    \/ InlineReturn

SpecInline == InitInline /\ [][NextInline]_vars
\* the written payloads without the ones whose replacement raises, with
\* the results the replacements can give: every sub-expression replaced by
\* the text of its total, everything else as written
OrksOf(c, s) == IntToStr(c) \o <<"W">> \o IntToStr(s) \o <<" ", "O", "r", "k", "s">>

InlineResults(payload) ==
    IF payload = P_Wolf THEN {P_Wolf}
    ELSE IF payload = P_Orks
         THEN {IntToStr(a) \o <<" ", "O", "r", "k", "s">> : a \in 1..4}
    ELSE IF payload = P_Mod
         THEN {IntToStr(a + b + 1) \o <<" ", "G", "o", "b", "l", "i", "n", "s">> :
                  a \in 1..3, b \in 1..3}
    ELSE IF payload = P_Two
         THEN {IntToStr(a + b - 1) \o <<" ", "u", "n", "d", " ">> \o IntToStr(c) :
                  a \in 1..3, b \in 1..3, c \in 1..2}
    ELSE IF payload = P_Chain
         THEN {IntToStr(a) \o <<"W", "2">> : a \in 1..4}
    ELSE IF payload = P_Spaced
         THEN {IntToStr(a) : a \in 1..3}
    ELSE IF payload = P_NoSides THEN {P_NoSides}
    ELSE IF payload = P_HalfMod
         THEN {IntToStr(a) \o <<"+", " ", "x">> : a \in 1..3}
    ELSE {}

\* the number of sub-expressions written in a payload
InlineCount(payload) ==
    IF payload \in {P_Wolf, P_NoSides} THEN 0
    ELSE IF payload = P_Two THEN 2
    ELSE 1

\* what roll_inline_w_dice has returned is right for the written payloads
\* and for "<count>W<sides> Orks": count draws in 1..sides sum to a total
\* in count..count*sides
InlineDoneRight ==
    wpc = "done" =>
       /\ InlineResults(w_text) # {} =>
             /\ rolled_text \in InlineResults(w_text)
             /\ Len(w_details) = InlineCount(w_text)
       /\ \A c \in 0..MaxInlineCount, s \in 0..MaxInlineSides :
             w_text = OrksOf(c, s) =>
                /\ rolled_text \in {IntToStr(t) \o <<" ", "O", "r", "k", "s">> :
                                       t \in c..(c * s)}
                /\ Len(w_details) = 1

\* a step that changes the result or the trace is a replacement, which
\* adds one trace line to the lines there were, or the return
InlineStepRight ==
    (wpc = "scan" /\ <<rolled_text, w_details>>' # <<rolled_text, w_details>>)
       => \/ /\ wpc' = "scan"
             /\ Len(w_details') = Len(w_details) + 1
             /\ SubSeq(w_details', 1, Len(w_details)) = w_details
          \/ /\ wpc' = "done"
             /\ w_details' = w_details

\* the replacements that return are done as described
C23_Replacements == []InlineDoneRight /\ [][InlineStepRight]_vars

\* C23: roll_inline_w_dice replaces every sub-expression <count>W<sides>
\* with optional modifier, left to right and in place, by the sum of count
\* draws in 1..sides plus the modifier, adds one trace line per
\* replacement, leaves the other text as it is, does not scan the
\* replacement text again, and returns a result for every payload.
C23_InlineRolls ==
    /\ []InlineDoneRight
    /\ [][InlineStepRight]_vars
    /\ [](wpc # "raised")

----------------------------------------------------------------------------
(* Properties of the trace of parse_roll_expression *)

\* the i-th trace line is the line of the i-th matched term: a dice line
\* with the term's sign, count and sides for a dice term, a modifier line
\* with the term's sign and value for a flat term
LineOfTerm(line, term) ==
    IF \E k \in 1..Len(term.token) : term.token[k] \in DiceSep
    THEN /\ line.kind = "dice"
         /\ line.sgn = (IF term.sign = <<"-">> THEN "-" ELSE "+")
         /\ line.count = DiceCount(term.token)
         /\ line.sides = DiceSides(term.token)
         /\ line.sum \in line.count..(line.count * line.sides)
    ELSE /\ line.kind = "mod"
         /\ line.sum = ParseInt(term.token)
         /\ line.sgn = (IF term.sign = <<"-">> /\ line.sum # 0 THEN "-" ELSE "+")

Example_1d20_2d6_3 == <<"1", "d", "2", "0", "+", "2", "d", "6", "+", "3">>

\* C24: when parse_roll_expression returns, the trace has one line per
\* matched term, in the order of the terms, for dice terms and flat terms
\* alike; for "1d20+2d6+3" it has three lines (1d20, 2d6, the modifier 3)
\* and the total lies in 6..35.
C24_TraceLinePerTerm ==
    rpc = "done" =>
       /\ Len(details) = Len(terms)
       /\ \A i \in 1..Len(terms) : LineOfTerm(details[i], terms[i])
       /\ expr = Example_1d20_2d6_3 =>
             /\ Len(details) = 3
             /\ details[1].kind = "dice" /\ details[1].count = 1 /\ details[1].sides = 20
             /\ details[2].kind = "dice" /\ details[2].count = 2 /\ details[2].sides = 6
             /\ details[3].kind = "mod" /\ details[3].sum = 3
             /\ total \in 6..35

\* "1d20+2d6+3" was evaluated with the highest draws
C24_Witness ==
    /\ rpc = "done"
    /\ expr = Example_1d20_2d6_3
    /\ Len(details) = 3
    /\ total = 35

----------------------------------------------------------------------------
(* The compiler on tables with two headings *)

\* the level pairs of the headings: the pairs of the fixed bands and one
\* pair outside them
BandPairs == {<<1, 4>>, <<1, 5>>, <<5, 10>>, <<6, 10>>, <<11, 16>>, <<17, 20>>,
              <<11, 20>>, <<2, 3>>}

\* the heading "Wald (Stufe a-b)"
WaldHeading(p) ==
    <<"W", "a", "l", "d", " ", "(", "S", "t", "u", "f", "e", " ">>
       \o IntToStr(p[1]) \o <<"-">> \o IntToStr(p[2]) \o <<")">>

\* a table of two headings with one entry each, plain and with a
\* preamble, a marker, a continuation line and an empty line
TwoHeadings(p, q) == <<WaldHeading(p), L_Wolf, WaldHeading(q), L_Inverted>>

TwoHeadingsLong(p, q) ==
    <<L_Cont, WaldHeading(p), L_Marker, L_Wolf, L_Cont, L_Blank,
      WaldHeading(q), L_Inverted>>

BandFiles ==
    {[exists |-> FALSE, text |-> <<>>]}
       \cup {[exists |-> TRUE, text |-> TwoHeadings(p, q)] : p, q \in BandPairs}
       \cup {[exists |-> TRUE, text |-> TwoHeadingsLong(p, q)] : p, q \in BandPairs}

InitBands ==
    /\ enc_file \in BandFiles
    /\ cpc = "init"
    /\ lines = <<>>
    /\ lineno = 0
    /\ data = <<>>
    /\ cur_biome = <<>>
    /\ cur_level = <<>>
    /\ pending_range = <<>>
    /\ pending_text_parts = <<>>
    /\ ENCOUNTERS = <<>>
    /\ RollIdle
    /\ CanonIdle
    /\ PickIdle
    /\ BotIdle
    /\ BiomIdle
    /\ InlineIdle
    /\ OracleIdle

SpecBands == InitBands /\ [][NextLoad]_vars

----------------------------------------------------------------------------
(* Properties of the tier keys *)

\* the banding rules as written
Banding ==
    (<<1, 4>> :> <<"1", "-", "4">>)
    @@ (<<5, 10>> :> <<"5", "-", "1", "0">>)
    @@ (<<6, 10>> :> <<"5", "-", "1", "0">>)
    @@ (<<11, 16>> :> <<"1", "1", "-", "1", "6">>)
    @@ (<<17, 20>> :> <<"1", "7", "-", "2", "0">>)
    @@ (<<11, 20>> :> <<"1", "1", "-", "2", "0">>)

\* the loop is at the heading "Wald (Stufe a-b)" of the pair p
AtWaldHeading(p) ==
    /\ cpc = "lines"
    /\ lineno <= Len(lines)
    /\ enc_file.text[lineno] = WaldHeading(p)

WolfEntry == <<5, 12, <<"E", "i", "n", " ", "W", "o", "l", "f", " ", "t", "a", "u", "c", "h", "t", " ", "a", "u", "f">>>>

WolfHowlsEntry == <<5, 12, <<"E", "i", "n", " ", "W", "o", "l", "f", " ", "t", "a", "u", "c", "h", "t", " ", "a", "u", "f", " ", "u", "n", "d", " ", "h", "e", "u", "l", "t">>>>

OgerEntry == <<41, 50, <<"O", "g", "e", "r">>>>

\* C25: a heading's level pair gives the tier key of the banding rules,
\* (1,4) -> "1-4", (5,10) and (6,10) -> "5-10", (11,16) -> "11-16",
\* (17,20) -> "17-20", (11,20) -> "11-20"; the entries of two headings of
\* one category whose pairs give the same key are in the same tier list,
\* in the order of the input.
C25_Banding ==
    /\ [][\A p \in DOMAIN Banding :
             AtWaldHeading(p) => cur_level' = Banding[p]]_vars
    /\ [](\A p, q \in DOMAIN Banding :
             (cpc = "done" /\ enc_file.exists /\ Banding[p] = Banding[q]) =>
                /\ enc_file.text = TwoHeadings(p, q) =>
                      ENCOUNTERS = (<<"W", "a", "l", "d">> :>
                                      (Banding[p] :> <<WolfEntry, OgerEntry>>))
                /\ enc_file.text = TwoHeadingsLong(p, q) =>
                      ENCOUNTERS = (<<"W", "a", "l", "d">> :>
                                      (Banding[p] :> <<WolfHowlsEntry, OgerEntry>>)))

\* a table with the headings (5,10) and (6,10) was compiled into one tier
C25_Witness ==
    /\ cpc = "done"
    /\ enc_file.exists
    /\ enc_file.text = TwoHeadings(<<5, 10>>, <<6, 10>>)
    /\ DOMAIN ENCOUNTERS[<<"W", "a", "l", "d">>] = {<<"5", "-", "1", "0">>}
    /\ Len(ENCOUNTERS[<<"W", "a", "l", "d">>][<<"5", "-", "1", "0">>]) = 2

----------------------------------------------------------------------------
(* Properties of the commit of an entry *)

\* the place of the last heading among the first n lines of the source,
\* 0 when there is none; the headings of EncLines are the written ones
RECURSIVE LastHeading(_, _)
LastHeading(text, n) ==
    IF n = 0 THEN 0
    ELSE IF text[n] \in DOMAIN WrittenHeadings THEN n
    ELSE LastHeading(text, n - 1)

\* the category and the tier in force after the first n lines are those
\* of the last heading among them
UnderLastHeading(n) ==
    LET h == LastHeading(enc_file.text, n)
    IN  IF h = 0 THEN cur_biome = <<>> /\ cur_level = <<>>
        ELSE /\ cur_biome = CanonicalEncBiom(WrittenHeadings[enc_file.text[h]].category)
             /\ cur_level = CanonicalLevel(WrittenHeadings[enc_file.text[h]].a,
                                           WrittenHeadings[enc_file.text[h]].b)

\* the tier list of a table, empty when the table has none
TierOf(table, c, t) ==
    IF c \in DOMAIN table /\ t \in DOMAIN table[c] THEN table[c][t] ELSE <<>>

\* a step that changes the table commits the pending entry: category and
\* tier are set, the text is not empty, and the one new entry is the last
\* of the tier that was in force before the step
Commits ==
    data' # data =>
       /\ cur_biome # <<>> /\ cur_level # <<>>
       /\ pending_range # <<>> /\ pending_text_parts # <<>>
       /\ TierOf(data', cur_biome, cur_level)
             = Append(TierOf(data, cur_biome, cur_level),
                      <<pending_range[1], pending_range[2],
                        JoinSpace(pending_text_parts)>>)
       /\ \A c \in DOMAIN data' : \A t \in DOMAIN data'[c] :
             <<c, t>> # <<cur_biome, cur_level>> =>
                data'[c][t] = TierOf(data, c, t)

\* no line of the source is a heading
NoHeading == \A i \in 1..Len(enc_file.text) : enc_file.text[i] \notin DOMAIN WrittenHeadings

\* C26: an entry is committed only while a category and a tier are set
\* and its text is not empty; every entry of the table has a non-empty
\* payload and is stored under the category and tier of the last heading
\* before its range line, also when the next heading commits it; range
\* lines before the first heading, and a range line without text and
\* without continuation lines, give no entry.
C26_CommitUnderHeading ==
    /\ [][cpc = "lines" => Commits]_vars
    /\ [](cpc = "lines" =>
             /\ UnderLastHeading(lineno - 1)
             /\ pending_range # <<>> => LastHeading(enc_file.text, lineno - 1) > 0)
    /\ [](\A t \in {data, ENCOUNTERS} : \A e \in EntriesOf(t) : e[3] # <<>>)
    /\ []((cpc = "done" /\ NoHeading) => ENCOUNTERS = <<>>)
    /\ [](\A h \in DOMAIN WrittenHeadings :
             (/\ cpc = "done"
              /\ enc_file.text \in {<<h, L_NoText>>, <<h, L_NoText, h>>,
                                    <<h, L_NoText, L_Blank>>, <<L_Wolf, h, L_NoText>>})
                => ENCOUNTERS = <<>>)

\* an entry that was pending when the next heading came is stored under
\* the heading before it
C26_Witness ==
    /\ cpc = "done"
    /\ enc_file.exists
    /\ enc_file.text = <<L_WaldStufe1_4, L_Wolf, L_Moor>>
    /\ ENCOUNTERS = SingleEntryTable(<<"W", "a", "l", "d">>, <<"1", "-", "4">>,
                                     WolfEntry)

----------------------------------------------------------------------------
(* Properties of the payload *)

\* a roll-die marker line: it starts with "w100", or it contains "w100"
\* and "begegn", in any case of the letters
MarkerLine(ln) ==
    \/ StartsWith(Lower(ln), <<"w", "1", "0", "0">>)
    \/ /\ Contains(Lower(ln), <<"w", "1", "0", "0">>)
       /\ Contains(Lower(ln), <<"b", "e", "g", "e", "g", "n">>)

\* the lines of the source as the loop sees them
CleanedLines(text) == [i \in 1..Len(text) |-> CleanEncLine(text[i])]

HeadingAt(ls, i) == ls[i] # <<>> /\ HeadingMatch(ls[i]).ok

\* a range line: no heading, no marker line, the pattern of a range
\* matches and a heading precedes it
RangeAt(ls, i) ==
    /\ ls[i] # <<>>
    /\ ~HeadingAt(ls, i)
    /\ ~MarkerLine(ls[i])
    /\ RangeMatch(ls[i]).ok
    /\ \E h \in 1..(i - 1) : HeadingAt(ls, h)

\* the lines after the range line at i that belong to its entry: up to
\* the next heading or range line, without empty lines and marker lines
ContinuationsOf(ls, i) ==
    LET stops == {j \in (i + 1)..Len(ls) : HeadingAt(ls, j) \/ RangeAt(ls, j)}
        stop  == IF stops = {} THEN Len(ls) + 1
                 ELSE CHOOSE j \in stops : \A k \in stops : j <= k
    IN  {j \in (i + 1)..(stop - 1) : ls[j] # <<>> /\ ~MarkerLine(ls[j])}

\* the texts of a set of lines, in the order of the input
RECURSIVE InOrder(_, _)
InOrder(ls, places) ==
    IF places = {} THEN <<>>
    ELSE LET first == CHOOSE j \in places : \A k \in places : j <= k
         IN  <<ls[first]>> \o InOrder(ls, places \ {first})

\* the payload of the entry of the range line at i
PayloadOf(ls, i) ==
    LET rest == Strip(RangeMatch(ls[i]).rest)
    IN  JoinSpace((IF rest = <<>> THEN <<>> ELSE <<rest>>)
                     \o InOrder(ls, ContinuationsOf(ls, i)))

\* the payloads of the table in the order of the input: those of the
\* range lines that have one
RECURSIVE PayloadsFrom(_, _)
PayloadsFrom(ls, i) ==
    IF i > Len(ls) THEN <<>>
    ELSE (IF RangeAt(ls, i) /\ PayloadOf(ls, i) # <<>>
          THEN <<PayloadOf(ls, i)>> ELSE <<>>) \o PayloadsFrom(ls, i + 1)

\* the payloads of a compiled table, tier by tier
PayloadsIn(table) ==
    UNION {{[i \in 1..Len(table[c][t]) |-> table[c][t][i][3]] :
               t \in DOMAIN table[c]} : c \in DOMAIN table}

\* the entries of a table with their tiers
Stored(table) ==
    UNION {UNION {{<<c, t, i>> : i \in 1..Len(table[c][t])}
                     : t \in DOMAIN table[c]} : c \in DOMAIN table}

\* s is a subsequence of t
RECURSIVE IsSubSeq(_, _)
IsSubSeq(s, t) ==
    IF Len(s) = 0 THEN TRUE
    ELSE IF Len(t) = 0 THEN FALSE
    ELSE IF s[1] = t[1] THEN IsSubSeq(Tail(s), Tail(t))
    ELSE IsSubSeq(s, Tail(t))

\* C27: the payload of an entry is the rest of its range line followed,
\* joined by single spaces and in the order of the input, by every later
\* non-empty line up to the next heading or range line; marker lines
\* (starting with "W100", or containing "w100" and "begegn") are skipped
\* and are in no payload; other lines that come while no entry is pending
\* are dropped.  The payloads of the table are those of the range lines of
\* the source, tier by tier in the order of the input, and nothing else.
C27_Payload ==
    (cpc = "done" /\ enc_file.exists /\ ~IsBlankText(enc_file.text)) =>
       LET ls == CleanedLines(enc_file.text)
           all == PayloadsFrom(ls, 1)
       IN  /\ Cardinality(Stored(ENCOUNTERS)) = Len(all)
           /\ \A tier \in PayloadsIn(ENCOUNTERS) : IsSubSeq(tier, all)
           /\ \A i \in 1..Len(all) :
                 \E tier \in PayloadsIn(ENCOUNTERS) :
                    \E k \in 1..Len(tier) : tier[k] = all[i]
           /\ enc_file.text = LongTable1 =>
                 PayloadsIn(ENCOUNTERS) = {<<<<"E", "i", "n", " ", "W", "o", "l", "f", " ", "t", "a", "u", "c", "h", "t", " ", "a", "u", "f", " ", "u", "n", "d", " ", "h", "e", "u", "l", "t", " ", "u", "n", "d", " ", "h", "e", "u", "l", "t">>, <<"D", "r", "a", "c", "h", "e">>>>}
           /\ enc_file.text = LongTable2 =>
                 PayloadsIn(ENCOUNTERS) = {<<<<"u", "n", "d", " ", "h", "e", "u", "l", "t", " ", "u", "n", "d", " ", "h", "e", "u", "l", "t">>>>, <<<<"O", "g", "e", "r">>>>}

\* an entry was compiled from a range line, a marker line that was
\* skipped and a continuation line
C27_Witness ==
    /\ cpc = "done"
    /\ enc_file.exists
    /\ enc_file.text = LongTable1
    /\ Len(ENCOUNTERS[<<"W", "a", "l", "d">>][<<"1", "-", "4">>]) = 2

----------------------------------------------------------------------------
(* Properties of the stored biome *)

\* the biomes a user can stand on: the known ones without Stadt/Dorf
GroundBiomes == {ALL_BIOMES[i] : i \in 1..Len(ALL_BIOMES)} \ {StadtDorf}

\* C28: after any sequence of /setbiom, biome buttons and /rollbiom the
\* stored biome of a user is unset or a known biome other than Stadt/Dorf;
\* so /rollbiom never reaches the error of roll_biom for an unknown biome.
C28_StoredBiomKnown ==
    /\ \A u \in DOMAIN user_data :
          "current_biom" \in DOMAIN user_data[u]
             => user_data[u]["current_biom"] \in GroundBiomes
    /\ reply.handler = "rollbiom" => reply.said # "ValueError"

\* after two or more updates /rollbiom, given no biome, called roll_biom
\* with the stored one, and the biome stored now is a known one
C28_Witness ==
    /\ reply.handler = "rollbiom"
    /\ reply.said = "rolled"
    /\ update.arg = <<>>
    /\ handled >= 3
    /\ user_data[update.user]["current_biom"] \in GroundBiomes

----------------------------------------------------------------------------
(* ORACLE SYSTEM: oracle_outcome for every odds key, chaos rank and roll *)

\* build_chaos_keyboard: the ranks of the buttons, range(1, 10)
ChaosRanksWide == 1..11
ChaosRanks == 1..9

\* oracle_outcome, lines 227-262, with the roll of line 232
OracleRoll ==
    /\ opc = "call"
    /\ \E roll \in RandInt(1, 100) :
          outcome' = OracleOutcome(oracle_odds, oracle_chaos, roll)
    /\ opc' = "returned"
    /\ UNCHANGED <<oracle_odds, oracle_chaos, event_block>>
    /\ OracleFrame

\* rolloracle_pick_chaos, lines 340-350: the message gets the block of the
\* random event when the outcome says so, and is sent
OracleSend ==
    /\ opc = "returned"
    /\ event_block' = outcome.random_event
    /\ opc' = "sent"
    /\ UNCHANGED <<oracle_odds, oracle_chaos, outcome>>
    /\ OracleFrame

InitOracle ==
    /\ oracle_odds \in DOMAIN BASE_CHANCE
    /\ oracle_chaos \in ChaosRanks
    /\ opc = "call"
    /\ outcome = NoOutcome
    /\ event_block = FALSE
    /\ RollIdle
    /\ CanonIdle
    /\ LoadIdle
    /\ ENCOUNTERS = <<>>
    /\ PickIdle
    /\ BotIdle
    /\ BiomIdle
    /\ InlineIdle

NextOracle ==
    \/ OracleRoll
    \/ OracleSend

SpecOracle == InitOracle /\ [][NextOracle]_vars

----------------------------------------------------------------------------
(* Properties of oracle_outcome *)

\* C29: for every odds key, chaos rank 1..9 and roll 1..100 the chance is
\* within 0..100 and the rolls are divided, in this order, into
\* exceptional yes (1..ex_yes), yes (up to chance), no (up to the start of
\* the exceptional no) and exceptional no (up to 100): the result is a yes
\* exactly when roll <= chance, ex_yes is at most chance and the
\* exceptional no starts above chance.
C29_OutcomeBands ==
    opc # "call" =>
       /\ outcome.roll \in 1..100
       /\ outcome.chance \in 0..100
       /\ outcome.ex_yes <= outcome.chance
       /\ outcome.ex_no_start > outcome.chance
       /\ outcome.result \in {"Außergewöhnlich Ja", "Ja"}
             <=> outcome.roll <= outcome.chance
       /\ outcome.result = "Außergewöhnlich Ja"
             <=> outcome.roll \in 1..outcome.ex_yes
       /\ outcome.result = "Ja"
             <=> outcome.roll \in (outcome.ex_yes + 1)..outcome.chance
       /\ outcome.result = "Nein"
             <=> outcome.roll \in (outcome.chance + 1)..(outcome.ex_no_start - 1)
       /\ outcome.result = "Außergewöhnlich Nein"
             <=> outcome.roll \in outcome.ex_no_start..100

\* the chance was cut to 0 and the roll fell into the exceptional no,
\* which then is the fifth 81..100
C29_Witness ==
    /\ opc = "returned"
    /\ outcome.chance = 0
    /\ outcome.ex_no_start = 81
    /\ outcome.roll = 81
    /\ outcome.result = "Außergewöhnlich Nein"

\* C30: for every chaos rank of the keyboard, 1..9, and every roll the
\* outcome has no random event (a double is a multiple of 11 and so above
\* the rank), and the message never gets the block of the random event.
C30_NoRandomEvent ==
    /\ opc # "call" => ~outcome.random_event
    /\ ~event_block

\* the lowest double with the highest rank of the keyboard
C30_Witness ==
    /\ opc = "sent"
    /\ oracle_chaos = 9
    /\ outcome.roll = 11
    /\ ~event_block

====
